---- MODULE Spec2Model ----
(***************************************************************************)
(* Verification model of the hybrid retrieval engine of PaperWeave         *)
(* (src/modules/hybrid_rag.py, src/modules/vector_db.py).                  *)
(*                                                                         *)
(* SpecIndex  : BM25Retriever's shared in-process index under concurrent   *)
(*              refresh() calls and searches.                              *)
(* SpecRerank : HybridRAGEngine._rerank_with_cross_encoder as a function   *)
(*              of the fused list and the text-generation response.        *)
(* Spec       : HybridRAGEngine.query, one step per pipeline stage.        *)
(***************************************************************************)
EXTENDS Integers, Sequences, FiniteSets, TLC

VARIABLES
    \* ---- BM25Retriever (hybrid_rag.py:20-32) and its datastore ----
    nrows,      \* number of paper_sections rows currently in the datastore
    bm25,       \* the attributes of the shared BM25Retriever object
    rpc,        \* position of each thread that runs refresh()
    rfetched,   \* per thread: number of rows cursor.fetchall() returned
    ri,         \* per thread: index of the next row of the load loop
    observed,   \* what the last search() read from the shared object
    \* ---- _rerank_with_cross_encoder as a function ----
    rr,
    \* ---- HybridRAGEngine.query ----
    q,
    \* ---- VectorDatabase (vector_db.py:18-52) ----
    collection, \* the chunks stored in the Chroma collection
    \* ---- BM25Retriever.search as a function ----
    bq,
    \* ---- HybridRAGEngine._generate_answer as a function ----
    ga,
    \* ---- KnowledgeGraph (knowledge_graph.py:21-23) ----
    kg,
    \* ---- VectorDatabase.index_paper / delete_paper calls ----
    vx,
    \* ---- current_job and the requests and threads around it (app.py:20-25) ----
    cj

idxVars == <<nrows, bm25, rpc, rfetched, ri, observed>>
fnVars == <<bq, ga, kg, vx, cj>>
vars == <<nrows, bm25, rpc, rfetched, ri, observed, rr, q, collection, bq, ga, kg, vx, cj>>

\* Python's None where an integer is expected, and where a string is expected
None == -1
NoneStr == "None"

(***************************************************************************)
(* Bounds                                                                  *)
(***************************************************************************)
MaxRows == 3        \* rows the datastore can hold
\* the threads of two queries; a query calls refresh() at most once
\* (hybrid_rag.py:224-233)
RefreshThreads == {1, 2}

(***************************************************************************)
(* Datastore rows: paper_sections JOIN papers (hybrid_rag.py:41-45).       *)
(* content is the text as a sequence of words.                             *)
(***************************************************************************)
AllRows ==
    <<[id |-> 1, paper_id |-> 1, job_id |-> 1, section_name |-> "Introduction",
       content |-> <<"Neural", "pruning", "of", "neural">>],
      [id |-> 2, paper_id |-> 1, job_id |-> 1, section_name |-> "Method",
       content |-> <<"pruning", "method", "database">>],
      [id |-> 3, paper_id |-> 2, job_id |-> 2, section_name |-> "Introduction",
       content |-> <<"database", "of", "storage">>],
      [id |-> 4, paper_id |-> 2, job_id |-> 2, section_name |-> "Method",
       content |-> <<"storage", "method">>]>>

Words == {"Neural", "neural", "pruning", "of", "database", "storage", "method",
          "Storage"}

\* text.lower() (hybrid_rag.py:97)
Lower(w) ==
    CASE w = "Neural" -> "neural"
      [] w = "Storage" -> "storage"
      [] OTHER -> w

\* len(t) of a lowercased word (hybrid_rag.py:101)
WordLen(w) ==
    CASE w = "neural" -> 6
      [] w = "pruning" -> 7
      [] w = "of" -> 2
      [] w = "database" -> 8
      [] w = "storage" -> 7
      [] w = "method" -> 6
      [] OTHER -> 0

LowerSeq(text) == [i \in 1..Len(text) |-> Lower(text[i])]
LongEnough(t) == WordLen(t) > 2

\* BM25Retriever._tokenize
Tokenize(text) == SelectSeq(LowerSeq(text), LongEnough)

Tokens == {Lower(w) : w \in {x \in Words : WordLen(Lower(x)) > 2}}

Min(a, b) == IF a < b THEN a ELSE b
SeqToSet(s) == {s[i] : i \in 1..Len(s)}
CountIn(s, x) == Cardinality({i \in 1..Len(s) : s[i] = x})

(***************************************************************************)
(* The index attributes.  avg_doc_length is the quotient num/den kept as a *)
(* pair; the integer 0 of __init__ and refresh() is 0/1.                   *)
(***************************************************************************)
Rat(n, d) == [num |-> n, den |-> d]
RatEq(a, b) == a.num * b.den = b.num * a.den

\* BM25Retriever.__init__ before _load_index; the same values refresh() assigns
EmptyIndex ==
    [documents |-> <<>>,
     document_metadata |-> <<>>,
     inverted_index |-> [t \in Tokens |-> <<>>],
     doc_lengths |-> <<>>,
     word_freqs |-> <<>>,
     avg_doc_length |-> Rat(0, 1)]

RECURSIVE SumOver(_, _)
SumOver(f, S) ==
    IF S = {} THEN 0
    ELSE LET x == CHOOSE y \in S : TRUE IN f[x] + SumOver(f, S \ {x})

\* sum(self.doc_lengths.values())
SumLengths(idx) == SumOver(idx.doc_lengths, DOMAIN idx.doc_lengths)

\* word_freqs is a defaultdict of defaultdict(int): a missing entry reads 0
FreqOf(idx, d, t) ==
    IF d \in DOMAIN idx.word_freqs THEN idx.word_freqs[d][t] ELSE 0

\* body of the row loop of _load_index, applied to the object's attributes
\* as they are when the row is processed
LoadRow(idx, row) ==
    LET tokens == Tokenize(row.content)
        meta == [paper_id |-> row.paper_id, job_id |-> row.job_id,
                 section |-> row.section_name]
    IN  [idx EXCEPT
            !.documents = Append(@, row.content),
            !.document_metadata = (row.id :> meta) @@ @,
            !.doc_lengths = (row.id :> Len(tokens)) @@ @,
            !.inverted_index =
                [t \in Tokens |->
                    IF t \in SeqToSet(tokens) THEN Append(@[t], row.id) ELSE @[t]],
            !.word_freqs =
                (row.id :> [t \in Tokens |->
                               FreqOf(idx, row.id, t) + CountIn(tokens, t)]) @@ @]

\* tail of _load_index: the average is set only when documents is non-empty
SetAverage(idx) ==
    IF idx.documents # <<>>
    THEN [idx EXCEPT !.avg_doc_length = Rat(SumLengths(idx), Len(idx.documents))]
    ELSE idx

RECURSIVE LoadRows(_, _)
LoadRows(idx, k) ==
    IF k = 0 THEN idx ELSE LoadRow(LoadRows(idx, k - 1), AllRows[k])

\* the index a single uninterrupted _load_index builds from the first k rows
BuildIndex(k) == SetAverage(LoadRows(EmptyIndex, k))

(***************************************************************************)
(* BM25Retriever.search (hybrid_rag.py:104-172).  Scores are kept in       *)
(* units of 0.00001; ln is tabulated in thousandths for the arguments      *)
(* (N - n + 0.5)/(n + 0.5) + 1 that occur with N documents and a posting   *)
(* list of n entries.                                                      *)
(***************************************************************************)
\* round(1000 * ln((N - n + 0.5)/(n + 0.5) + 1))
IdfMilli(N, n) ==
    CASE N = 1 /\ n = 1 -> 288
      [] N = 2 /\ n = 1 -> 693
      [] N = 2 /\ n = 2 -> 182
      [] N = 3 /\ n = 1 -> 981
      [] N = 3 /\ n = 2 -> 470
      [] N = 3 /\ n = 3 -> 134
      [] N = 4 /\ n = 1 -> 1204
      [] N = 4 /\ n = 2 -> 693
      [] N = 4 /\ n = 3 -> 357
      [] N = 4 /\ n = 4 -> 105
      [] N = 5 /\ n = 1 -> 1386
      [] N = 5 /\ n = 2 -> 875
      [] N = 5 /\ n = 3 -> 539
      [] N = 5 /\ n = 4 -> 288
      [] N = 5 /\ n = 5 -> 87
      \* a posting list longer than documents, left by an interleaved refresh()
      [] N = 1 /\ n = 2 -> -223
      [] N = 2 /\ n = 3 -> -154
      [] N = 3 /\ n = 4 -> -118
      [] N = 4 /\ n = 5 -> -95
      \* documents emptied by refresh() while the posting lists are still there
      [] N = 0 /\ n = 1 -> -405
      [] N = 0 /\ n = 2 -> -916
      [] N = 0 /\ n = 3 -> -1253
      [] N = 0 /\ n = 4 -> -1504
      [] N = 0 /\ n = 5 -> -1705

\* a score whose numerator leaves the term frequency out
TermScoreWithoutTf(idx, d, t) ==
    LET tf == FreqOf(idx, d, t)
        dl == idx.doc_lengths[d]
        avg == idx.avg_doc_length
        idf == IdfMilli(Len(idx.documents), Len(idx.inverted_index[t]))
    IN  (idf * 100 * 20 * avg.num)
            \div (8 * tf * avg.num + 3 * avg.num + 9 * dl * avg.den)

\* idf * tf * (k1 + 1) / (tf + k1 * (1 - b + b * doc_length / avg_doc_length))
\* with k1 = 1.5, b = 0.75 and avg_doc_length = num/den, numerator and
\* denominator multiplied by 8 * num
TermScore(idx, d, t) ==
    LET tf == FreqOf(idx, d, t)
        dl == idx.doc_lengths[d]
        avg == idx.avg_doc_length
        idf == IdfMilli(Len(idx.documents), Len(idx.inverted_index[t]))
    IN  (idf * 100 * 20 * tf * avg.num)
            \div (8 * tf * avg.num + 3 * avg.num + 9 * dl * avg.den)

\* the query tokens that are keys of inverted_index
IndexedTokens(idx, query_tokens) ==
    SelectSeq(query_tokens, LAMBDA t : t \in Tokens /\ idx.inverted_index[t] # <<>>)

RECURSIVE Concat(_)
Concat(ss) == IF ss = <<>> THEN <<>> ELSE Head(ss) \o Concat(Tail(ss))

RECURSIVE Distinct(_)
Distinct(s) ==
    IF s = <<>> THEN <<>>
    ELSE LET front == Distinct(SubSeq(s, 1, Len(s) - 1))
             last == s[Len(s)]
         IN  IF last \in SeqToSet(front) THEN front ELSE Append(front, last)

\* the (doc_id, token) pairs the two nested loops visit, in order
ScoredPairs(idx, query_tokens) ==
    LET toks == IndexedTokens(idx, query_tokens)
    IN  Concat([i \in 1..Len(toks) |->
                   [j \in 1..Len(idx.inverted_index[toks[i]]) |->
                       [doc_id |-> idx.inverted_index[toks[i]][j], token |-> toks[i]]]])

RECURSIVE SumScores(_, _, _)
SumScores(idx, pairs, d) ==
    IF pairs = <<>> THEN 0
    ELSE (IF Head(pairs).doc_id = d THEN TermScore(idx, d, Head(pairs).token) ELSE 0)
            + SumScores(idx, Tail(pairs), d)

\* sorted(items, key=..., reverse=True): a stable sort, descending; key maps
\* each element to its quotient num/den
\* a comparison that also moves an element in front of its equals
RatGreaterOrEqual(a, b) == a.num * b.den >= b.num * a.den

RatGreater(a, b) == a.num * b.den > b.num * a.den

RECURSIVE InsertDesc(_, _, _)
InsertDesc(sorted, x, key) ==
    IF sorted = <<>> THEN <<x>>
    ELSE IF RatGreater(key[x], key[sorted[Len(sorted)]]) 
         THEN Append(InsertDesc(SubSeq(sorted, 1, Len(sorted) - 1), x, key),
                     sorted[Len(sorted)])
         ELSE Append(sorted, x)

RECURSIVE SortDesc(_, _)
SortDesc(s, key) ==
    IF s = <<>> THEN <<>>
    ELSE InsertDesc(SortDesc(SubSeq(s, 1, Len(s) - 1), key), s[Len(s)], key)

\* metadata.get('job_id', 0)
MetaJob(metadata) == IF "job_id" \in DOMAIN metadata THEN metadata.job_id ELSE 0

\* a filter that keeps only the chunks of the job
StrictJobEligible(metadata, job_id) ==
    job_id = None \/ MetaJob(metadata) = job_id

\* the job_id filter of the result loop
JobEligible(metadata, job_id) ==
    job_id = None \/ ~(MetaJob(metadata) > 0 /\ MetaJob(metadata) # job_id)

RECURSIVE MaxOf(_)
MaxOf(s) == IF Len(s) = 1 THEN s[1]
            ELSE LET m == MaxOf(Tail(s)) IN IF s[1] > m THEN s[1] ELSE m

\* the result loop appends an eligible chunk and only then tests
\* len(results) >= top_k (hybrid_rag.py:161-170)
ReturnedCount(n_eligible, top_k) ==
    IF n_eligible = 0 THEN 0
    ELSE IF top_k <= 1 THEN 1
    ELSE Min(top_k, n_eligible)

\* early returns of a search that tests only the query tokens
NothingToSearchTokensOnly(idx, query_tokens) == query_tokens = <<>>

\* the two early returns of search: `if not self.documents` and
\* `if not query_tokens` (hybrid_rag.py:116-121)
NothingToSearch(idx, query_tokens) == idx.documents = <<>> \/ query_tokens = <<>>

\* BM25Retriever.search; raised models the ZeroDivisionError and KeyError it
\* lets escape when the attributes it reads do not belong together
search(idx, query, top_k, job_id) ==
    LET query_tokens == Tokenize(query)
        pairs == ScoredPairs(idx, query_tokens)
        docs == Distinct([i \in 1..Len(pairs) |-> pairs[i].doc_id])
        broken == \/ idx.avg_doc_length.num = 0
                  \/ \E i \in 1..Len(docs) : docs[i] \notin DOMAIN idx.doc_lengths
        score(d) == SumScores(idx, pairs, d)
        sorted_results == SortDesc(docs, [d \in SeqToSet(docs) |-> Rat(score(d), 1)])
        MetaOf(d) == IF d \in DOMAIN idx.document_metadata
                     THEN idx.document_metadata[d] ELSE <<>>
        eligible == SelectSeq(sorted_results, LAMBDA d : JobEligible(MetaOf(d), job_id))
        maxscore == MaxOf([i \in 1..Len(docs) |-> score(docs[i])])
    IN  IF NothingToSearch(idx, query_tokens)
        THEN [raised |-> FALSE, results |-> <<>>]
        ELSE IF pairs # <<>> /\ broken
        THEN [raised |-> TRUE, results |-> <<>>]
        ELSE [raised |-> FALSE,
              results |->
                [i \in 1..ReturnedCount(Len(eligible), top_k) |->
                    [id |-> [prefix |-> "bm25", n |-> eligible[i], section |-> ""],
                     doc_id |-> eligible[i],
                     metadata |-> MetaOf(eligible[i]),
                     bm25_score |-> score(eligible[i]),
                     relevance_score |->
                        Min((score(eligible[i]) * 1000) \div maxscore, 1000)]]]

(***************************************************************************)
(* SpecIndex: refresh() run by two threads, searches and ingestion.        *)
(***************************************************************************)
NoObservation == [seen |-> FALSE]

\* the objects a specification does not exercise
Off == [phase |-> "off"]

InitFnOff ==
    /\ bq = Off
    /\ ga = Off
    /\ kg = Off
    /\ vx = Off
    /\ cj = Off

InitIdle ==
    /\ rr = [phase |-> "off"]
    /\ q = [pc |-> "off"]
    /\ collection = {}
    /\ InitFnOff

InitIndex ==
    /\ nrows \in 0..1
    /\ bm25 = BuildIndex(nrows)
    /\ rpc = [t \in RefreshThreads |-> "idle"]
    /\ rfetched = [t \in RefreshThreads |-> 0]
    /\ ri = [t \in RefreshThreads |-> 0]
    /\ observed = NoObservation
    /\ InitIdle

\* the ingestion pipeline stores one more section row
Ingest ==
    /\ nrows < MaxRows
    /\ nrows' = nrows + 1
    /\ UNCHANGED <<bm25, rpc, rfetched, ri, observed, rr, q, collection, fnVars>>

\* a thread enters refresh()
RefreshCall(t) ==
    /\ rpc[t] = "idle"
    /\ rpc' = [rpc EXCEPT ![t] = "documents"]
    /\ UNCHANGED <<nrows, bm25, rfetched, ri, observed, rr, q, collection, fnVars>>

ResetOrder ==
    [documents |-> "document_metadata",
     document_metadata |-> "inverted_index",
     inverted_index |-> "doc_lengths",
     doc_lengths |-> "word_freqs",
     word_freqs |-> "avg_doc_length",
     avg_doc_length |-> "fetch"]

\* one of the six attribute assignments of refresh()
RefreshReset(t) ==
    /\ rpc[t] \in DOMAIN ResetOrder
    /\ bm25' = [bm25 EXCEPT ![rpc[t]] = EmptyIndex[rpc[t]]]
    /\ rpc' = [rpc EXCEPT ![t] = ResetOrder[rpc[t]]]
    /\ UNCHANGED <<nrows, rfetched, ri, observed, rr, q, collection, fnVars>>

\* _load_index: the SELECT and cursor.fetchall()
LoadFetch(t) ==
    /\ rpc[t] = "fetch"
    /\ rfetched' = [rfetched EXCEPT ![t] = nrows]
    /\ ri' = [ri EXCEPT ![t] = 1]
    /\ rpc' = [rpc EXCEPT ![t] = "loop"]
    /\ UNCHANGED <<nrows, bm25, observed, rr, q, collection, fnVars>>

\* _load_index: one iteration of the row loop
LoadStep(t) ==
    /\ rpc[t] = "loop"
    /\ ri[t] <= rfetched[t]
    /\ bm25' = LoadRow(bm25, AllRows[ri[t]])
    /\ ri' = [ri EXCEPT ![t] = @ + 1]
    /\ UNCHANGED <<nrows, rpc, rfetched, observed, rr, q, collection, fnVars>>

\* _load_index: the average, then refresh() returns
LoadFinish(t) ==
    /\ rpc[t] = "loop"
    /\ ri[t] > rfetched[t]
    /\ bm25' = SetAverage(bm25)
    /\ rpc' = [rpc EXCEPT ![t] = "returned"]
    /\ UNCHANGED <<nrows, rfetched, ri, observed, rr, q, collection, fnVars>>

\* a search() that runs between two steps of the refreshing threads reads
\* the attributes of the shared object as they are
SearchObserve ==
    /\ observed' = [seen |-> TRUE, index |-> bm25]
    /\ UNCHANGED <<nrows, bm25, rpc, rfetched, ri, rr, q, collection, fnVars>>

NextIndex ==
    \/ Ingest
    \/ \E t \in RefreshThreads : RefreshCall(t)
    \/ \E t \in RefreshThreads : RefreshReset(t)
    \/ \E t \in RefreshThreads : LoadFetch(t)
    \/ \E t \in RefreshThreads : LoadStep(t)
    \/ \E t \in RefreshThreads : LoadFinish(t)
    \/ SearchObserve

SpecIndex == InitIndex /\ [][NextIndex]_vars

(***************************************************************************)
(* _rerank_with_cross_encoder (hybrid_rag.py:442-519).                     *)
(* results is the fused list; llm is the outcome of ollama.chat: it raises *)
(* or returns a text, given as the parts between its commas.  A part is a  *)
(* decimal integer or some other text.                                     *)
(***************************************************************************)
MaxFused == 11      \* longest fused list given to the rerank function
MaxParts == 2       \* most comma-separated parts of a rerank response

RerankMinResults == 5      \* hybrid_rag.py:449
RerankSlice == 10          \* hybrid_rag.py:454

Take(s, n) == SubSeq(s, 1, Min(n, Len(s)))
Drop(s, n) == SubSeq(s, Min(n, Len(s)) + 1, Len(s))

IntPart(n) == [kind |-> "int", value |-> n]
TextPart == [kind |-> "text"]

\* the parse loop: int(part) - 1, kept when it is an index of candidates;
\* a part that is not an integer raises ValueError and is skipped
RECURSIVE ParseRanks(_, _)
ParseRanks(parts, ncand) ==
    IF parts = <<>> THEN <<>>
    ELSE LET part == Head(parts)
             rest == ParseRanks(Tail(parts), ncand)
         IN  IF part.kind = "int" /\ 0 <= part.value - 1 /\ part.value - 1 < ncand
             THEN <<part.value - 1>> \o rest
             ELSE rest

\* the reorder loop: the candidates at the parsed 0-based ranks, in order
RECURSIVE PickRanked(_, _)
PickRanked(candidates, ranks) ==
    IF ranks = <<>> THEN <<>>
    ELSE IF 0 <= Head(ranks) /\ Head(ranks) < Len(candidates)
         THEN <<candidates[Head(ranks) + 1]>> \o PickRanked(candidates, Tail(ranks))
         ELSE PickRanked(candidates, Tail(ranks))

\* the statements after a response was received (hybrid_rag.py:486-515)
RerankParsed(results, parts) ==
    LET candidates == Take(results, RerankSlice)
        ranks == ParseRanks(parts, Len(candidates))
        reranked == PickRanked(candidates, ranks)
    IN  IF ranks = <<>> THEN results
        ELSE reranked \o Drop(candidates, Len(reranked))
                      \o Drop(results, Len(candidates))

\* a variant that hands back only the reranked slice when the call fails
RerankSliceOnFailure(results, llm) ==
    IF Len(results) <= RerankMinResults THEN results
    ELSE IF llm.raises THEN Take(results, RerankMinResults)
    ELSE RerankParsed(results, llm.parts)

\* _rerank_with_cross_encoder: the value it returns; no exception leaves it
rerank_with_cross_encoder(results, llm) ==
    IF Len(results) <= RerankMinResults THEN results
    ELSE IF llm.raises THEN results
    ELSE RerankParsed(results, llm.parts)

Parts(n) == {TextPart} \cup {IntPart(i) : i \in 0..(n + 1)}

RECURSIVE SeqsUpTo(_, _)
SeqsUpTo(S, k) ==
    IF k = 0 THEN {<<>>}
    ELSE LET shorter == SeqsUpTo(S, k - 1)
         IN  shorter \cup {Append(s, x) : s \in {t \in shorter : Len(t) = k - 1}, x \in S}

LlmOutcomes(n) ==
    {[raises |-> TRUE, parts |-> <<>>]}
        \cup {[raises |-> FALSE, parts |-> p] : p \in SeqsUpTo(Parts(n), MaxParts)}

InitRerank ==
    /\ \E n \in 0..MaxFused : \E llm \in LlmOutcomes(n) :
          rr = [phase |-> "call", results |-> [i \in 1..n |-> i], llm |-> llm,
                out |-> <<>>]
    /\ nrows = 0 /\ bm25 = EmptyIndex
    /\ rpc = [t \in RefreshThreads |-> "idle"]
    /\ rfetched = [t \in RefreshThreads |-> 0]
    /\ ri = [t \in RefreshThreads |-> 0]
    /\ observed = NoObservation
    /\ q = [pc |-> "off"]
    /\ collection = {}
    /\ InitFnOff

RerankCall ==
    /\ rr.phase = "call"
    /\ rr' = [rr EXCEPT !.phase = "returned",
                        !.out = rerank_with_cross_encoder(rr.results, rr.llm)]
    /\ UNCHANGED <<idxVars, q, collection, fnVars>>

NextRerank == RerankCall

SpecRerank == InitRerank /\ [][NextRerank]_vars

(***************************************************************************)
(* VectorDatabase (vector_db.py).  A section of at most CHUNK_SIZE words   *)
(* is stored by index_paper as one chunk holding the section's text, under *)
(* the id paper_<paper_id>_<section>_<chunk_idx>_<hash>.                   *)
(***************************************************************************)
RAG_TOP_K_RESULTS == 15           \* config.py:56
RAG_SIMILARITY_THRESHOLD == 350   \* config.py:57, in thousandths
RetrievalTopK == 20               \* hybrid_rag.py:216

\* the chunk index_paper stores for a datastore row's section
ChunkOf(row) ==
    [id |-> [prefix |-> "paper", n |-> row.paper_id, section |-> row.section_name],
     text |-> row.content,
     metadata |-> [paper_id |-> row.paper_id, job_id |-> row.job_id,
                   section_type |-> row.section_name]]

AllChunks == [i \in 1..Len(AllRows) |-> ChunkOf(AllRows[i])]

(***************************************************************************)
(* The questions asked.  similarity gives 1 - distance, in thousandths,    *)
(* of the question's embedding to the chunk of each row.                   *)
(***************************************************************************)
Questions ==
    <<[words |-> <<"Neural", "pruning">>, similarity |-> <<800, 500, 200, 100>>],
      [words |-> <<"pruning", "database", "method">>,
       similarity |-> <<600, 700, 650, 400>>],
      [words |-> <<"of">>, similarity |-> <<100, 100, 100, 100>>],
      [words |-> <<"storage">>, similarity |-> <<100, 200, 700, 700>>]>>

ChunkIndex(c) == CHOOSE i \in 1..Len(AllChunks) : AllChunks[i] = c
SimilarityOf(question, c) == question.similarity[ChunkIndex(c)]

\* the where clause search() builds (vector_db.py:241-252), as the set of
\* metadata fields it constrains
WhereOf(filter_job_id, filter_paper_id) ==
    (IF filter_job_id # None /\ filter_job_id > 0
        THEN {<<"job_id", filter_job_id>>} ELSE {})
    \cup (IF filter_paper_id # None THEN {<<"paper_id", filter_paper_id>>} ELSE {})

\* collection.query: the n_results nearest chunks that satisfy where
ChromaQuery(coll, question, n_results, where) ==
    LET matching == {c \in coll : \A w \in where : c.metadata[w[1]] = w[2]}
        inOrder == SelectSeq(AllChunks, LAMBDA c : c \in matching)
        nearest == SortDesc(inOrder,
                            [c \in matching |-> Rat(SimilarityOf(question, c), 1)])
    IN  Take(nearest, n_results)

\* VectorDatabase.search.  A where clause with two fields and no operator is
\* rejected by collection.query with a ValueError, which search() turns into
\* an empty result (vector_db.py:303-305).
vector_search(coll, question, top_k, filter_job_id, filter_paper_id) ==
    LET total_docs == Cardinality(coll)
        n_results == Min(top_k * 2, total_docs)
        where == WhereOf(filter_job_id, filter_paper_id)
        filtered == ChromaQuery(coll, question, n_results, where)
        results == IF filtered = <<>> /\ where # {}
                   THEN ChromaQuery(coll, question, n_results, {})
                   ELSE filtered
        formatted == [i \in 1..Len(results) |->
                        [id |-> results[i].id,
                         text |-> results[i].text,
                         metadata |-> results[i].metadata,
                         distance |-> 1000 - SimilarityOf(question, results[i]),
                         relevance_score |-> SimilarityOf(question, results[i])]]
        kept == SelectSeq(formatted,
                          LAMBDA r : r.relevance_score >= RAG_SIMILARITY_THRESHOLD)
        sorted == SortDesc(kept, [r \in SeqToSet(kept) |-> Rat(r.relevance_score, 1)])
    IN  IF total_docs = 0 THEN <<>>
        ELSE IF Cardinality(where) > 1 THEN <<>>
        ELSE Take(sorted, top_k)

(***************************************************************************)
(* Fusion and deduplication (hybrid_rag.py:366-440, 521-538)               *)
(***************************************************************************)
RRF_K == 60      \* hybrid_rag.py:375

\* dict.get with a default, for the fields read that way
Get(d, field, default) == IF field \in DOMAIN d THEN d[field] ELSE default

\* a variant that keys every result by its paper alone
PaperOnlyKey(result) ==
    [prefix |-> "", n |-> Get(Get(result, "metadata", <<>>), "paper_id", None),
     section |-> ""]

\* _get_doc_key
get_doc_key(result) ==
    IF "doc_id" \in DOMAIN result
    THEN [prefix |-> "bm25", n |-> result.doc_id, section |-> ""]
    ELSE IF "id" \in DOMAIN result THEN result.id
    ELSE [prefix |-> "", n |-> Get(Get(result, "metadata", <<>>), "paper_id", None),
          section |-> ""]

RatAdd(a, b) == Rat(a.num * b.den + b.num * a.den, a.den * b.den)

KeysOf(results) == [i \in 1..Len(results) |-> get_doc_key(results[i])]

\* rrf_scores[doc_key] += 1.0 / (k + rank), over one list
RECURSIVE RankSum(_, _, _)
RankSum(keys, key, rank) ==
    IF rank > Len(keys) THEN Rat(0, 1)
    ELSE LET rest == RankSum(keys, key, rank + 1)
         IN  IF keys[rank] = key THEN RatAdd(Rat(1, RRF_K + rank), rest) ELSE rest

FirstRank(keys, key) ==
    IF \E i \in 1..Len(keys) : keys[i] = key
    THEN CHOOSE i \in 1..Len(keys) :
            keys[i] = key /\ \A j \in 1..(i - 1) : keys[j] # key
    ELSE None

LastRank(keys, key) ==
    IF \E i \in 1..Len(keys) : keys[i] = key
    THEN CHOOSE i \in 1..Len(keys) :
            keys[i] = key /\ \A j \in (i + 1)..Len(keys) : keys[j] # key
    ELSE None

\* _reciprocal_rank_fusion
reciprocal_rank_fusion(bm25_results, semantic_results) ==
    LET bkeys == KeysOf(bm25_results)
        skeys == KeysOf(semantic_results)
        doc_keys == Distinct(bkeys \o skeys)
        rrf_scores == [k \in SeqToSet(doc_keys) |->
                          RatAdd(RankSum(bkeys, k, 1), RankSum(skeys, k, 1))]
        sorted_docs == SortDesc(doc_keys, rrf_scores)
        \* doc_info[doc_key]: the entry made at the key's first occurrence,
        \* semantic_rank overwritten by each later semantic occurrence
        InBm25(k) == FirstRank(bkeys, k) # None
        bm25_rank(k) == FirstRank(bkeys, k)
        semantic_rank(k) == LastRank(skeys, k)
        result(k) == IF InBm25(k) THEN bm25_results[FirstRank(bkeys, k)]
                     ELSE semantic_results[FirstRank(skeys, k)]
    IN  [i \in 1..Len(sorted_docs) |->
            LET k == sorted_docs[i]
            IN  [x \in {"rrf_score", "fusion_info"} |->
                    IF x = "rrf_score" THEN rrf_scores[k]
                    ELSE [bm25_rank |-> bm25_rank(k),
                          semantic_rank |-> semantic_rank(k),
                          combined_score |-> rrf_scores[k]]] @@ result(k)]

\* the key _deduplicate_results builds for a result
DedupKey(result) ==
    LET metadata == Get(result, "metadata", <<>>)
    IN  <<Get(metadata, "paper_id", None), Get(metadata, "section_type", NoneStr)>>

\* _deduplicate_results
RECURSIVE deduplicate_results(_)
deduplicate_results(results) ==
    IF results = <<>> THEN <<>>
    ELSE LET front == deduplicate_results(SubSeq(results, 1, Len(results) - 1))
             last == results[Len(results)]
         IN  IF \E i \in 1..Len(front) : DedupKey(front[i]) = DedupKey(last)
             THEN front ELSE Append(front, last)

(***************************************************************************)
(* HybridRAGEngine.query (hybrid_rag.py:194-326), one action per stage.    *)
(***************************************************************************)
JobIds == {None, 1, 2}
PaperIds == {None, 1, 2}
NotAString == 0     \* a question that is not a str: re.findall raises TypeError

\* keywords_pattern (hybrid_rag.py:189), matched with re.IGNORECASE
Keywords == {"method", "approach", "model", "algorithm", "technique", "framework",
             "system", "network", "dataset", "metric"}
IsKeyword(w) == Lower(w) \in Keywords

\* _preprocess_query: the keyword hits are appended to the query
preprocess_query(query) == query \o SelectSeq(query, IsKeyword)

\* if not bm25_results and not semantic_results (hybrid_rag.py:224, 239)
BothEmpty(bm25_results, semantic_results) ==
    bm25_results = <<>> /\ semantic_results = <<>>

\* a variant that refreshes when either retrieval is empty
EitherEmpty(bm25_results, semantic_results) ==
    bm25_results = <<>> \/ semantic_results = <<>>

\* the condition under which query refreshes the indexes and retries
NeedsRefresh(bm25_results, semantic_results) ==
    BothEmpty(bm25_results, semantic_results)

\* the response of hybrid_rag.py:241-252
NoInformation ==
    [answer |-> "No relevant information found in the research papers",
     sources |-> <<>>,
     confidence |-> "low",
     method |-> "hybrid_rag",
     retrieval_methods |-> [bm25_count |-> 0, semantic_count |-> 0,
                            after_fusion |-> 0, after_dedup |-> 0]]

\* the response of hybrid_rag.py:273-278
NoResultsAfterDedup ==
    [answer |-> "No relevant information found",
     sources |-> <<>>,
     confidence |-> "low",
     method |-> "hybrid_rag"]

\* a variant of the handler that reports low confidence and no message
SilentErrorResponse(e) ==
    [answer |-> "Error processing query",
     sources |-> <<>>,
     confidence |-> "low",
     method |-> "hybrid_rag"]

\* the response of the top-level handler (hybrid_rag.py:318-326)
ErrorResponse(e) ==
    [answer |-> "Error processing query",
     sources |-> <<>>,
     confidence |-> "error",
     error |-> e,
     method |-> "hybrid_rag"]

\* _retrieve_bm25: an exception of search() becomes an empty list
retrieve_bm25(idx, query, top_k, job_id, fault) ==
    LET r == search(idx, query, top_k, job_id)
    IN  IF fault \/ r.raised THEN <<>> ELSE r.results

\* a retrieval that passes on what the adapter had found when it raised
RetrieveSemanticPartial(coll, question, top_k, job_id, paper_id, fault) ==
    vector_search(coll, question, top_k, job_id, paper_id)

\* _retrieve_semantic: an exception of vector_db.search becomes an empty list
retrieve_semantic(coll, question, top_k, job_id, paper_id, fault) ==
    IF fault THEN <<>> ELSE vector_search(coll, question, top_k, job_id, paper_id)

\* _enrich_with_context; related is what find_related_papers returns for
\* every paper, kg_raises whether it raises
enrich_with_context(results, related, kg_raises) ==
    [i \in 1..Len(results) |->
        LET paper_id == Get(Get(results[i], "metadata", <<>>), "paper_id", None)
        IN  IF paper_id # None /\ paper_id # 0
            THEN [x \in {"related_papers"} |->
                     IF kg_raises THEN <<>> ELSE related] @@ results[i]
            ELSE results[i]]

RECURSIVE SumSeq(_)
SumSeq(s) == IF s = <<>> THEN 0 ELSE Head(s) + SumSeq(Tail(s))

\* thresholds the mean has to exceed
ConfidenceAbove(papers_cited, total, n) ==
    IF papers_cited >= 3 /\ n > 0 /\ total > 500 * n THEN "high"
    ELSE IF papers_cited >= 1 /\ n > 0 /\ total > 300 * n THEN "medium"
    ELSE "low"

\* the confidence of _generate_answer (hybrid_rag.py:648-657): total is the
\* sum of the n relevance scores in thousandths; avg_score >= 0.5 and
\* avg_score >= 0.3, avg_score being 0 for no sources
ConfidenceOf(papers_cited, total, n) ==
    IF papers_cited >= 3 /\ n > 0 /\ total >= 500 * n THEN "high"
    ELSE IF papers_cited >= 1 /\ n > 0 /\ total >= 300 * n THEN "medium"
    ELSE "low"

\* _generate_answer: relevance scores are in thousandths
generate_answer(sources, llm_raises) ==
    LET papers_cited ==
            Cardinality({Get(sources[i].metadata, "paper_id", None) :
                            i \in 1..Len(sources)})
        total == SumSeq([i \in 1..Len(sources) |->
                            Get(sources[i], "relevance_score", 0)])
        n == Len(sources)
    IN  IF llm_raises
        THEN [answer |-> "Error: generation failed", confidence |-> "error"]
        ELSE [answer |-> "generated",
              confidence |-> ConfidenceOf(papers_cited, total, n),
              papers_analyzed |-> papers_cited,
              average_score |-> IF n > 0 THEN Rat(total, n) ELSE Rat(0, 1),
              relationships_used |->
                  \E i \in 1..n : Get(sources[i], "related_papers", <<>>) # <<>>]

\* paper_number: papers are numbered by first appearance
\* papers_seen[paper_id]: the number of papers seen when the paper of
\* result i first appeared, that paper included
PaperNumber(results, i) ==
    LET paper(j) == Get(results[j].metadata, "paper_id", None)
        first == CHOOSE j \in 1..i : paper(j) = paper(i) /\ \A k \in 1..(j - 1) : paper(k) # paper(i)
    IN  Cardinality({paper(j) : j \in 1..first})

\* _format_sources
format_sources(results) ==
    [i \in 1..Len(results) |->
        LET metadata == results[i].metadata
        IN  [source_number |-> i,
             paper_number |-> PaperNumber(results, i),
             paper_id |-> Get(metadata, "paper_id", None),
             section |-> Get(metadata, "section_type",
                             Get(metadata, "section", "Unknown")),
             relevance_score |-> Get(results[i], "relevance_score",
                                     Get(results[i], "bm25_score", 0)),
             retrieval_method |-> IF "relevance_score" \in DOMAIN results[i]
                                  THEN "semantic" ELSE "bm25",
             rrf_score |-> Get(results[i], "rrf_score", Rat(0, 1)),
             fusion_info |-> Get(results[i], "fusion_info", <<>>)]]

NoCalls ==
    [bm25 |-> 0, semantic |-> 0, vector_refresh |-> 0, bm25_refresh |-> 0,
     fuse |-> 0, rerank |-> 0, rerank_llm |-> 0, dedup |-> 0, generate |-> 0]

QIdle ==
    [pc |-> "idle", question |-> NotAString, job_id |-> None,
     specific_paper_id |-> None, processed_query |-> <<>>,
     first_bm25 |-> <<>>, first_semantic |-> <<>>,
     bm25_results |-> <<>>, semantic_results |-> <<>>, fused_results |-> <<>>,
     reranked |-> <<>>, unique_results |-> <<>>, final_results |-> <<>>,
     enriched |-> <<>>, answer_data |-> <<>>, response |-> <<>>,
     handled |-> FALSE, semantic_raised |-> FALSE, generate_raised |-> FALSE,
     calls |-> NoCalls]

\* the engine at the time of a query: the index was loaded when the datastore
\* held k rows, the datastore has grown since and the first c rows' papers
\* have been indexed into the collection
Init ==
    /\ nrows \in 0..MaxRows
    /\ \E k \in 0..nrows : bm25 = BuildIndex(k)
    /\ \E c \in 0..nrows : collection = {AllChunks[i] : i \in 1..c}
    /\ rpc = [t \in RefreshThreads |-> "idle"]
    /\ rfetched = [t \in RefreshThreads |-> 0]
    /\ ri = [t \in RefreshThreads |-> 0]
    /\ observed = NoObservation
    /\ rr = [phase |-> "off"]
    /\ q = QIdle
    /\ InitFnOff

unchangedByQuery == <<nrows, rpc, rfetched, ri, observed, rr, collection, fnVars>>

QueryCall ==
    /\ q.pc = "idle"
    /\ \E question \in 0..Len(Questions), job_id \in JobIds, paper_id \in PaperIds :
          q' = [q EXCEPT !.pc = "preprocess", !.question = question,
                         !.job_id = job_id, !.specific_paper_id = paper_id]
    /\ UNCHANGED <<bm25, unchangedByQuery>>

\* Step 1; the TypeError of a question that is not a string reaches the
\* handler of query
QPreprocess ==
    /\ q.pc = "preprocess"
    /\ q' = IF q.question = NotAString
            THEN [q EXCEPT !.pc = "returned", !.handled = TRUE,
                           !.response = ErrorResponse("TypeError")]
            ELSE [q EXCEPT !.pc = "bm25",
                           !.processed_query =
                               preprocess_query(Questions[q.question].words)]
    /\ UNCHANGED <<bm25, unchangedByQuery>>

Semantic(fault) ==
    retrieve_semantic(collection, Questions[q.question], RetrievalTopK,
                      q.job_id, q.specific_paper_id, fault)

\* Step 2, first attempt
QRetrieveBm25 ==
    /\ q.pc = "bm25"
    /\ \E fault \in BOOLEAN :
          q' = [q EXCEPT !.pc = "semantic",
                         !.bm25_results =
                             retrieve_bm25(bm25, q.processed_query, RetrievalTopK,
                                           q.job_id, fault),
                         !.calls.bm25 = @ + 1]
    /\ UNCHANGED <<bm25, unchangedByQuery>>

QRetrieveSemantic ==
    /\ q.pc = "semantic"
    /\ \E fault \in BOOLEAN :
          LET semantic_results == Semantic(fault)
          IN  q' = [q EXCEPT !.semantic_results = semantic_results,
                             !.first_bm25 = q.bm25_results,
                             !.first_semantic = semantic_results,
                             !.semantic_raised = fault,
                             !.calls.semantic = @ + 1,
                             !.pc = IF NeedsRefresh(q.bm25_results, semantic_results)
                                    THEN "refresh_vector" ELSE "fuse"]
    /\ UNCHANGED <<bm25, unchangedByQuery>>

\* vector_db.refresh() re-reads the collection handle
QRefreshVector ==
    /\ q.pc = "refresh_vector"
    /\ q' = [q EXCEPT !.pc = "refresh_bm25", !.calls.vector_refresh = @ + 1]
    /\ UNCHANGED <<bm25, unchangedByQuery>>

\* self.bm25.refresh(); when the datastore cannot be read _load_index logs a
\* warning and the index stays empty
QRefreshBm25 ==
    /\ q.pc = "refresh_bm25"
    /\ \E db_fails \in BOOLEAN :
          bm25' = IF db_fails THEN EmptyIndex ELSE BuildIndex(nrows)
    /\ q' = [q EXCEPT !.pc = "retry_bm25", !.calls.bm25_refresh = @ + 1]
    /\ UNCHANGED unchangedByQuery

\* the retry after the refresh
QRetryBm25 ==
    /\ q.pc = "retry_bm25"
    /\ \E fault \in BOOLEAN :
          q' = [q EXCEPT !.pc = "retry_semantic",
                         !.bm25_results =
                             retrieve_bm25(bm25, q.processed_query, RetrievalTopK,
                                           q.job_id, fault),
                         !.calls.bm25 = @ + 1]
    /\ UNCHANGED <<bm25, unchangedByQuery>>

QRetrySemantic ==
    /\ q.pc = "retry_semantic"
    /\ \E fault \in BOOLEAN :
          LET semantic_results == Semantic(fault)
          IN  q' = IF BothEmpty(q.bm25_results, semantic_results)
                   THEN [q EXCEPT !.semantic_results = semantic_results,
                                  !.calls.semantic = @ + 1,
                                  !.pc = "returned",
                                  !.response = NoInformation]
                   ELSE [q EXCEPT !.semantic_results = semantic_results,
                                  !.calls.semantic = @ + 1,
                                  !.pc = "fuse"]
    /\ UNCHANGED <<bm25, unchangedByQuery>>

\* Step 3
QFuse ==
    /\ q.pc = "fuse"
    /\ q' = [q EXCEPT !.pc = "rerank",
                      !.fused_results =
                          reciprocal_rank_fusion(q.bm25_results, q.semantic_results),
                      !.calls.fuse = @ + 1]
    /\ UNCHANGED <<bm25, unchangedByQuery>>

\* the responses of the rerank call tried in a query: a failure, or a text of
\* at most one part
QueryLlmOutcomes(n) ==
    {llm \in LlmOutcomes(n) : Len(llm.parts) <= 1}

\* Step 4; ollama.chat is called only for more than 5 results
QRerank ==
    /\ q.pc = "rerank"
    /\ IF Len(q.fused_results) <= RerankMinResults
       THEN q' = [q EXCEPT !.pc = "dedup",
                           !.reranked = rerank_with_cross_encoder(
                               q.fused_results, [raises |-> FALSE, parts |-> <<>>]),
                           !.calls.rerank = @ + 1]
       ELSE \E llm \in QueryLlmOutcomes(Len(q.fused_results)) :
               q' = [q EXCEPT !.pc = "dedup",
                              !.reranked =
                                  rerank_with_cross_encoder(q.fused_results, llm),
                              !.calls.rerank = @ + 1,
                              !.calls.rerank_llm = @ + 1]
    /\ UNCHANGED <<bm25, unchangedByQuery>>

\* Step 5 and the truncation to the configured result count
QDedup ==
    /\ q.pc = "dedup"
    /\ LET unique_results == deduplicate_results(q.reranked)
           final_results == Take(unique_results, RAG_TOP_K_RESULTS)
       IN  q' = IF final_results = <<>>
                THEN [q EXCEPT !.pc = "returned",
                               !.unique_results = unique_results,
                               !.final_results = final_results,
                               !.calls.dedup = @ + 1,
                               !.response = NoResultsAfterDedup]
                ELSE [q EXCEPT !.pc = "enrich",
                               !.unique_results = unique_results,
                               !.final_results = final_results,
                               !.calls.dedup = @ + 1]
    /\ UNCHANGED <<bm25, unchangedByQuery>>

RelatedOutcomes == {<<>>, <<[relationship |-> "cites"]>>}

\* Step 6
QEnrich ==
    /\ q.pc = "enrich"
    /\ \E kg_raises \in BOOLEAN, related \in RelatedOutcomes :
          /\ kg_raises => related = <<>>
          /\ q' = [q EXCEPT !.pc = "generate",
                            !.enriched =
                                enrich_with_context(q.final_results, related, kg_raises)]
    /\ UNCHANGED <<bm25, unchangedByQuery>>

\* Steps 7 and 8: the context is built and the answer requested
QGenerate ==
    /\ q.pc = "generate"
    /\ \E llm_raises \in BOOLEAN :
          q' = [q EXCEPT !.pc = "format",
                         !.answer_data = generate_answer(q.enriched, llm_raises),
                         !.generate_raised = llm_raises,
                         !.calls.generate = @ + 1]
    /\ UNCHANGED <<bm25, unchangedByQuery>>

\* the sources, the diagnostics and the return (hybrid_rag.py:294-316)
QReturn ==
    /\ q.pc = "format"
    /\ q' = [q EXCEPT
               !.pc = "returned",
               !.response =
                   [sources |-> format_sources(q.enriched),
                    method |-> "hybrid_rag",
                    retrieval_methods |->
                        [bm25_count |-> Len(q.bm25_results),
                         semantic_count |-> Len(q.semantic_results),
                         after_fusion |-> Len(q.fused_results),
                         after_dedup |-> Len(q.unique_results)]] @@ q.answer_data]
    /\ UNCHANGED <<bm25, unchangedByQuery>>

Next ==
    \/ QueryCall
    \/ QPreprocess
    \/ QRetrieveBm25
    \/ QRetrieveSemantic
    \/ QRefreshVector
    \/ QRefreshBm25
    \/ QRetryBm25
    \/ QRetrySemantic
    \/ QFuse
    \/ QRerank
    \/ QDedup
    \/ QEnrich
    \/ QGenerate
    \/ QReturn

Spec == Init /\ [][Next]_vars

(***************************************************************************)
(* SpecSearch: BM25Retriever.search as a function of the index, the query, *)
(* top_k and job_id.                                                       *)
(***************************************************************************)
MaxTopK == 3        \* largest top_k passed to search()

\* job_id of the papers: 0 is the value the code calls an old document
\* (hybrid_rag.py:155-156)
StoredJobIds == {0, 1, 2}

\* the first k datastore rows when the papers belong to the jobs job_of
RowsWithJobs(k, job_of) ==
    [i \in 1..k |-> [AllRows[i] EXCEPT !.job_id = job_of[AllRows[i].paper_id]]]

RECURSIVE LoadSeq(_, _)
LoadSeq(idx, rows) ==
    IF rows = <<>> THEN idx
    ELSE LoadRow(LoadSeq(idx, SubSeq(rows, 1, Len(rows) - 1)), rows[Len(rows)])

\* the index one uninterrupted _load_index builds from rows
IndexOf(rows) == SetAverage(LoadSeq(EmptyIndex, rows))

\* the index left when a second refresh() runs its first two assignments
\* inside the row loop of a first one: documents = [] after the first row,
\* document_metadata = {} after the last row, then the first one sets the
\* average.  The chunks are indexed and have no metadata.
RacedIndexOf(rows) ==
    LET first == [LoadRow(EmptyIndex, rows[1]) EXCEPT !.documents = <<>>]
        rest == LoadSeq(first, Tail(rows))
    IN  SetAverage([rest EXCEPT !.document_metadata = <<>>])

\* the index a search reads when a refresh() has run its first assignment,
\* documents = [], and nothing else yet (hybrid_rag.py:82-83)
ResetIndexOf(rows) == [IndexOf(rows) EXCEPT !.documents = <<>>]

SearchIndexes ==
    {IndexOf(RowsWithJobs(k, job_of)) :
        k \in 0..MaxRows, job_of \in [{1, 2} -> StoredJobIds]}
    \cup {RacedIndexOf(RowsWithJobs(k, job_of)) :
        k \in 2..MaxRows, job_of \in [{1, 2} -> StoredJobIds]}
    \cup {ResetIndexOf(RowsWithJobs(k, job_of)) :
        k \in 1..MaxRows, job_of \in [{1, 2} -> StoredJobIds]}

\* the queries: the questions' words and the empty string
SearchQueries == {Questions[i].words : i \in 1..Len(Questions)} \cup {<<>>}

InitSearch ==
    /\ \E idx \in SearchIndexes, query \in SearchQueries,
          top_k \in 0..MaxTopK, job_id \in JobIds :
          bq = [phase |-> "call", idx |-> idx, query |-> query,
                top_k |-> top_k, job_id |-> job_id,
                out |-> [raised |-> FALSE, results |-> <<>>]]
    /\ nrows = 0 /\ bm25 = EmptyIndex
    /\ rpc = [t \in RefreshThreads |-> "idle"]
    /\ rfetched = [t \in RefreshThreads |-> 0]
    /\ ri = [t \in RefreshThreads |-> 0]
    /\ observed = NoObservation
    /\ rr = [phase |-> "off"]
    /\ q = [pc |-> "off"]
    /\ collection = {}
    /\ ga = Off /\ kg = Off /\ vx = Off /\ cj = Off

SearchCall ==
    /\ bq.phase = "call"
    /\ bq' = [bq EXCEPT !.phase = "returned",
                        !.out = search(bq.idx, bq.query, bq.top_k, bq.job_id)]
    /\ UNCHANGED <<idxVars, rr, q, collection, ga, kg, vx, cj>>

NextSearch == SearchCall

SpecSearch == InitSearch /\ [][NextSearch]_vars

(***************************************************************************)
(* SpecGraph: KnowledgeGraph (knowledge_graph.py).  graph is the           *)
(* MultiDiGraph: nodes in insertion order with the attributes the methods  *)
(* read, and the edges in insertion order; parallel edges are repeated     *)
(* entries.                                                                *)
(***************************************************************************)
MaxGraphOps == 3     \* add_paper and link_citations calls on one graph
MaxResults == 2      \* largest max_results passed to find_related_papers

MAX_CONCEPTS_PER_PAPER == 15     \* config.py:81

GraphPapers == {1, 2, 3}

\* f"paper_{paper_id}" and int(node.split('_')[1])
PaperNode(p) == CASE p = 1 -> "paper_1" [] p = 2 -> "paper_2" [] p = 3 -> "paper_3"
PaperNodes == {PaperNode(p) : p \in GraphPapers}
PaperIdOf(node) == CHOOSE p \in GraphPapers : PaperNode(p) = node

\* _normalize_author_name
normalize_author_name(name) ==
    CASE name = "Ann" -> "author_ann" [] name = "Bob" -> "author_bob"
AuthorNodes == {"author_ann", "author_bob"}

\* f"concept_{concept.lower().replace(' ', '_')}"
ConceptNode(concept) ==
    CASE concept = "neural" -> "concept_neural" [] concept = "cs.LG" -> "concept_cs.lg"
ConceptNodes == {"concept_neural", "concept_cs.lg"}

\* papers.job_id of the datastore row of each paper
PaperJob == (1 :> 1) @@ (2 :> 1) @@ (3 :> 2)

\* the compiled paper data: title, authors and the set _extract_concepts
\* collects from the contributions and the categories
PaperData ==
    (1 :> [title |-> <<"Neural", "pruning", "of", "database", "storage">>,
           authors |-> <<"Ann", "Bob">>, concepts |-> {"neural", "cs.LG"}])
    @@ (2 :> [title |-> <<"neural", "pruning", "of", "database", "storage", "method">>,
              authors |-> <<"Bob">>, concepts |-> {"neural"}])
    @@ (3 :> [title |-> <<"storage", "method">>,
              authors |-> <<"Bob", "Ann">>, concepts |-> {"cs.LG"}])

\* reference lists given to link_citations: the titles of the references
RefLists ==
    {<<[title |-> <<"neural", "pruning", "of", "database">>],
       [title |-> <<"Storage", "method">>],
       [title |-> <<"neural", "pruning", "of", "database", "storage">>]>>}

EmptyGraph == [nodes |-> <<>>, edges |-> <<>>]

has_node(g, id) == \E i \in 1..Len(g.nodes) : g.nodes[i].id = id
NodeIndex(g, id) == CHOOSE i \in 1..Len(g.nodes) : g.nodes[i].id = id
NodeData(g, id) == g.nodes[NodeIndex(g, id)]

\* graph.add_node: a new node goes last, an existing one keeps its place and
\* takes the attributes
add_node(g, node) ==
    IF has_node(g, node.id)
    THEN [g EXCEPT !.nodes[NodeIndex(g, node.id)] = node]
    ELSE [g EXCEPT !.nodes = Append(@, node)]

\* graph.add_edge of a MultiDiGraph: always one more edge
add_edge(g, u, v, relationship) ==
    [g EXCEPT !.edges = Append(@, [u |-> u, v |-> v, relationship |-> relationship])]

\* graph.predecessors / graph.successors: the neighbours in the order in
\* which their first edge was added
predecessors(g, v) ==
    LET into == SelectSeq(g.edges, LAMBDA e : e.v = v)
    IN  Distinct([i \in 1..Len(into) |-> into[i].u])

successors(g, u) ==
    LET from == SelectSeq(g.edges, LAMBDA e : e.u = u)
    IN  Distinct([i \in 1..Len(from) |-> from[i].v])

PaperNodeRecord(p, job_id, title) ==
    [id |-> PaperNode(p), type |-> "paper", paper_id |-> p, job_id |-> job_id,
     title |-> title, name |-> ""]

NamedNodeRecord(id, type, name) ==
    [id |-> id, type |-> type, paper_id |-> 0, job_id |-> 0, title |-> <<>>,
     name |-> name]

RECURSIVE AddAuthors(_, _, _)
AddAuthors(g, p, authors) ==
    IF authors = <<>> THEN g
    ELSE LET before == AddAuthors(g, p, SubSeq(authors, 1, Len(authors) - 1))
             author == authors[Len(authors)]
             author_id == normalize_author_name(author)
             with_node == IF has_node(before, author_id) THEN before
                          ELSE add_node(before, NamedNodeRecord(author_id, "author", author))
         IN  add_edge(with_node, author_id, PaperNode(p), "authored")

RECURSIVE AddConcepts(_, _, _)
AddConcepts(g, p, concepts) ==
    IF concepts = <<>> THEN g
    ELSE LET before == AddConcepts(g, p, SubSeq(concepts, 1, Len(concepts) - 1))
             concept == concepts[Len(concepts)]
             concept_id == ConceptNode(concept)
             with_node == IF has_node(before, concept_id) THEN before
                          ELSE add_node(before, NamedNodeRecord(concept_id, "concept", concept))
         IN  add_edge(with_node, PaperNode(p), concept_id, "discusses")

\* the orders in which list(concepts) can enumerate the set
Orderings(S) == {o \in [1..Cardinality(S) -> S] : SeqToSet(o) = S}

\* _extract_concepts: list(concepts)[:config.MAX_CONCEPTS_PER_PAPER]
extract_concepts(paper_data, order) == Take(order, MAX_CONCEPTS_PER_PAPER)

\* add_paper; db_job_id is the job_id the SELECT returns, None when the
\* lookup fails or finds no row
\* the part of add_paper before _extract_concepts (knowledge_graph.py:45-93)
AddPaperAndAuthors(g, p, paper_data, db_job_id) ==
    LET job_id == IF db_job_id # None THEN db_job_id ELSE 0
        with_paper == add_node(g, PaperNodeRecord(p, job_id, paper_data.title))
    IN  AddAuthors(with_paper, p, paper_data.authors)

\* an add_paper that links no concept
AddPaperWithoutConcepts(g, p, paper_data, db_job_id, order) ==
    AddPaperAndAuthors(g, p, paper_data, db_job_id)

add_paper(g, p, paper_data, db_job_id, order) ==
    AddConcepts(AddPaperAndAuthors(g, p, paper_data, db_job_id), p,
                extract_concepts(paper_data, order))

\* add_paper when _extract_concepts raises: a contribution the JSON of the
\* extraction holds as a list has no lower() (knowledge_graph.py:335-338,
\* 356; compiler.py:738).  The except clause returns False; the paper node
\* and the authored edges stay in the graph.
add_paper_raising(g, p, paper_data, db_job_id) ==
    AddPaperAndAuthors(g, p, paper_data, db_job_id)

\* _title_similarity > 0.8, the quotient compared without rounding
TitleWords(title) == {Lower(title[i]) : i \in 1..Len(title)}

title_similarity(title1, title2) ==
    LET words1 == TitleWords(title1)
        words2 == TitleWords(title2)
    IN  IF words1 = {} \/ words2 = {} THEN Rat(0, 1)
        ELSE Rat(Cardinality(words1 \cap words2), Cardinality(words1 \cup words2))

\* a threshold that accepts a similarity of 0.8
TitlesMatchAtThreshold(ref_title, node_title) ==
    /\ ref_title # <<>>
    /\ node_title # <<>>
    /\ ~RatGreater(Rat(8, 10), title_similarity(ref_title, node_title))

\* the condition of link_citations (knowledge_graph.py:151)
TitlesMatch(ref_title, node_title) ==
    /\ ref_title # <<>>
    /\ node_title # <<>>
    /\ RatGreater(title_similarity(ref_title, node_title), Rat(8, 10))

\* the paper nodes of graph.nodes() that match a reference title, in
\* iteration order
MatchingNodes(g, ref) ==
    SelectSeq(g.nodes, LAMBDA n : n.id \in PaperNodes /\ TitlesMatch(ref.title, n.title))

\* link_citations: [graph, links_created]
RECURSIVE LinkRefs(_, _, _)
LinkRefs(g, source_node, references) ==
    IF references = <<>> THEN [graph |-> g, links_created |-> 0]
    ELSE LET before == LinkRefs(g, source_node, SubSeq(references, 1, Len(references) - 1))
             matches == MatchingNodes(before.graph, references[Len(references)])
         IN  IF matches = <<>> THEN before
             ELSE [graph |-> add_edge(before.graph, source_node, matches[1].id, "cites"),
                   links_created |-> before.links_created + 1]

link_citations(g, p, references) ==
    IF ~has_node(g, PaperNode(p)) THEN [graph |-> g, links_created |-> 0]
    ELSE LinkRefs(g, PaperNode(p), references)

\* an entry of the list find_related_papers returns; concept is NoneStr
\* when the entry has no 'concept' key
Related(node, relationship, concept, g) ==
    [paper_id |-> PaperIdOf(node), relationship |-> relationship,
     concept |-> concept, title |-> NodeData(g, node).title]

\* no filter by job
NeverFilteredOut(g, node, job_id) == FALSE

\* job_id is not None and graph.nodes[node].get('job_id') != job_id
FilteredOut(g, node, job_id) == job_id # None /\ NodeData(g, node).job_id # job_id

HasCites(g, u, v) ==
    \E i \in 1..Len(g.edges) :
        g.edges[i].u = u /\ g.edges[i].v = v /\ g.edges[i].relationship = "cites"

CitingPapers(g, source_node, job_id) ==
    LET nodes == SelectSeq(predecessors(g, source_node),
                    LAMBDA n : /\ n \in PaperNodes
                               /\ ~FilteredOut(g, n, job_id)
                               /\ HasCites(g, n, source_node))
    IN  [i \in 1..Len(nodes) |-> Related(nodes[i], "cites_this", NoneStr, g)]

CitedPapers(g, source_node, job_id) ==
    LET nodes == SelectSeq(successors(g, source_node),
                    LAMBDA n : /\ n \in PaperNodes
                               /\ ~FilteredOut(g, n, job_id)
                               /\ HasCites(g, source_node, n))
    IN  [i \in 1..Len(nodes) |-> Related(nodes[i], "cited_by_this", NoneStr, g)]

SameAuthorPapers(g, source_node, job_id) ==
    LET authors == SelectSeq(predecessors(g, source_node), LAMBDA n : n \in AuthorNodes)
        PapersOf(author) ==
            SelectSeq(successors(g, author),
                LAMBDA n : n \in PaperNodes /\ n # source_node /\ ~FilteredOut(g, n, job_id))
    IN  Concat([a \in 1..Len(authors) |->
            [i \in 1..Len(PapersOf(authors[a])) |->
                Related(PapersOf(authors[a])[i], "same_author", NoneStr, g)]])

SharedConceptPapers(g, source_node, job_id) ==
    LET concepts == SelectSeq(successors(g, source_node), LAMBDA n : n \in ConceptNodes)
        PapersOf(concept) ==
            SelectSeq(predecessors(g, concept),
                LAMBDA n : n \in PaperNodes /\ n # source_node /\ ~FilteredOut(g, n, job_id))
    IN  Concat([c \in 1..Len(concepts) |->
            [i \in 1..Len(PapersOf(concepts[c])) |->
                Related(PapersOf(concepts[c])[i], "shared_concept",
                        NodeData(g, concepts[c]).name, g)]])

\* the loop that keeps the first entry of each paper_id
RECURSIVE UniqueRelated(_)
UniqueRelated(related) ==
    IF related = <<>> THEN <<>>
    ELSE LET front == UniqueRelated(SubSeq(related, 1, Len(related) - 1))
             item == related[Len(related)]
         IN  IF \E i \in 1..Len(front) : front[i].paper_id = item.paper_id
             THEN front ELSE Append(front, item)

\* the candidates before the duplicates are removed
RelatedCandidates(g, p, job_id) ==
    LET source_node == PaperNode(p)
        job == IF job_id = None THEN NodeData(g, source_node).job_id ELSE job_id
    IN  CitingPapers(g, source_node, job) \o CitedPapers(g, source_node, job)
            \o SameAuthorPapers(g, source_node, job)
            \o SharedConceptPapers(g, source_node, job)

\* no removal of duplicates
FindRelatedNoDedup(g, p, max_results, job_id) ==
    IF ~has_node(g, PaperNode(p)) THEN <<>>
    ELSE Take(RelatedCandidates(g, p, job_id), max_results)

\* find_related_papers; max_results >= 0
find_related_papers(g, p, max_results, job_id) ==
    IF ~has_node(g, PaperNode(p)) THEN <<>>
    ELSE Take(UniqueRelated(RelatedCandidates(g, p, job_id)), max_results)

NoGraphCall == [op |-> "none"]

InitGraph ==
    /\ kg = [phase |-> "on", graph |-> EmptyGraph, prev |-> EmptyGraph,
             log |-> <<>>, found |-> NoGraphCall]
    /\ nrows = 0 /\ bm25 = EmptyIndex
    /\ rpc = [t \in RefreshThreads |-> "idle"]
    /\ rfetched = [t \in RefreshThreads |-> 0]
    /\ ri = [t \in RefreshThreads |-> 0]
    /\ observed = NoObservation
    /\ rr = [phase |-> "off"]
    /\ q = [pc |-> "off"]
    /\ collection = {}
    /\ bq = Off /\ ga = Off /\ vx = Off /\ cj = Off

unchangedByGraph == <<idxVars, rr, q, collection, bq, ga, vx, cj>>

\* add_paper(paper_id, paper_data) as app.py:547 calls it
AddPaper ==
    /\ Len(kg.log) < MaxGraphOps
    /\ \E p \in GraphPapers :
       \E db_job_id \in {None, PaperJob[p]}, order \in Orderings(PaperData[p].concepts) :
          kg' = [kg EXCEPT
                    !.prev = kg.graph,
                    !.graph = add_paper(kg.graph, p, PaperData[p], db_job_id, order),
                    !.log = Append(@, [op |-> "add_paper", paper_id |-> p,
                                       db_job_id |-> db_job_id, order |-> order,
                                       references |-> <<>>, links_created |-> 0,
                                       returned |-> TRUE]),
                    !.found = NoGraphCall]
    /\ UNCHANGED unchangedByGraph

\* add_paper(paper_id, paper_data) returning False
AddPaperFails ==
    /\ Len(kg.log) < MaxGraphOps
    /\ \E p \in GraphPapers :
       \E db_job_id \in {None, PaperJob[p]} :
          kg' = [kg EXCEPT
                    !.prev = kg.graph,
                    !.graph = add_paper_raising(kg.graph, p, PaperData[p], db_job_id),
                    !.log = Append(@, [op |-> "add_paper", paper_id |-> p,
                                       db_job_id |-> db_job_id, order |-> <<>>,
                                       references |-> <<>>, links_created |-> 0,
                                       returned |-> FALSE]),
                    !.found = NoGraphCall]
    /\ UNCHANGED unchangedByGraph

\* link_citations(paper_id, references) as app.py:551 calls it
LinkCitations ==
    /\ Len(kg.log) < MaxGraphOps
    /\ \E p \in GraphPapers, references \in RefLists :
          LET linked == link_citations(kg.graph, p, references)
          IN  kg' = [kg EXCEPT
                        !.prev = kg.graph,
                        !.graph = linked.graph,
                        !.log = Append(@, [op |-> "link_citations", paper_id |-> p,
                                           db_job_id |-> None, order |-> <<>>,
                                           references |-> references,
                                           links_created |-> linked.links_created,
                                           returned |-> TRUE]),
                        !.found = NoGraphCall]
    /\ UNCHANGED unchangedByGraph

\* find_related_papers(paper_id, max_results, job_id)
FindRelated ==
    /\ kg.found = NoGraphCall
    /\ \E p \in GraphPapers, max_results \in 0..MaxResults, job_id \in JobIds :
          kg' = [kg EXCEPT
                    !.found = [op |-> "find_related_papers", paper_id |-> p,
                               max_results |-> max_results, job_id |-> job_id,
                               related |-> find_related_papers(kg.graph, p,
                                                               max_results, job_id)]]
    /\ UNCHANGED unchangedByGraph

NextGraph ==
    \/ AddPaper
    \/ LinkCitations
    \/ FindRelated

SpecGraph == InitGraph /\ [][NextGraph]_vars

\* the calls that write the graph, the add_paper calls that return False
\* included
NextGraphWrites ==
    \/ AddPaper
    \/ AddPaperFails
    \/ LinkCitations

SpecGraphWrites == InitGraph /\ [][NextGraphWrites]_vars

(***************************************************************************)
(* SpecGraphRace: add_paper and link_citations for the same paper run by   *)
(* two request threads (app.run(threaded=True), app.py:1017; no lock in    *)
(* knowledge_graph.py), and a find_related_papers call of a third.  A step *)
(* is one call on the graph object; the loop `for node in                  *)
(* self.graph.nodes()` is one step per next() of the dict iterator, which  *)
(* raises RuntimeError when the dict has changed size since the loop began.*)
(***************************************************************************)
\* the paper both calls are about
RacePaper == PaperIdOf("paper_1")
RelatedMaxResults == 10     \* app.py:490

\* the graph before the two calls: another paper is in it
RaceGraph0 == add_paper(EmptyGraph, 3, PaperData[3], PaperJob[3], <<"cs.LG">>)

RaceRefs == CHOOSE refs \in RefLists : TRUE

InitGraphRace ==
    /\ \E db_job_id \in {None, PaperJob[RacePaper]},
          order \in Orderings(PaperData[RacePaper].concepts) :
          kg = [phase |-> "race", graph |-> RaceGraph0,
                db_job_id |-> db_job_id, order |-> order,
                a |-> [pc |-> "paper_node", i |-> 1],
                l |-> [pc |-> "has_node", ref |-> 1, pos |-> 1, size0 |-> 0,
                       links_created |-> 0, returned |-> None],
                found |-> NoGraphCall]
    /\ nrows = 0 /\ bm25 = EmptyIndex
    /\ rpc = [t \in RefreshThreads |-> "idle"]
    /\ rfetched = [t \in RefreshThreads |-> 0]
    /\ ri = [t \in RefreshThreads |-> 0]
    /\ observed = NoObservation
    /\ rr = [phase |-> "off"]
    /\ q = [pc |-> "off"]
    /\ collection = {}
    /\ bq = Off /\ ga = Off /\ vx = Off /\ cj = Off

RaceAuthors == PaperData[RacePaper].authors
RaceConcepts == extract_concepts(PaperData[RacePaper], kg.order)

\* add_paper: self.graph.add_node(f"paper_{paper_id}", ...)
RaceAddPaperNode ==
    /\ kg.a.pc = "paper_node"
    /\ kg' = [kg EXCEPT
                !.graph = add_node(@, PaperNodeRecord(RacePaper,
                                        IF kg.db_job_id # None THEN kg.db_job_id ELSE 0,
                                        PaperData[RacePaper].title)),
                !.a = [pc |-> "author_node", i |-> 1]]
    /\ UNCHANGED unchangedByGraph

\* add_paper: `if not has_node(author_id): add_node(author_id, ...)`, or the
\* end of the author loop
RaceAddAuthorNode ==
    /\ kg.a.pc = "author_node"
    /\ IF kg.a.i > Len(RaceAuthors)
       THEN kg' = [kg EXCEPT !.a = [pc |-> "concept_node", i |-> 1]]
       ELSE LET author == RaceAuthors[kg.a.i]
                author_id == normalize_author_name(author)
            IN  kg' = [kg EXCEPT
                         !.graph = IF has_node(@, author_id) THEN @
                                   ELSE add_node(@, NamedNodeRecord(author_id, "author",
                                                                    author)),
                         !.a.pc = "author_edge"]
    /\ UNCHANGED unchangedByGraph

\* add_paper: add_edge(author_id, paper, relationship='authored')
RaceAddAuthorEdge ==
    /\ kg.a.pc = "author_edge"
    /\ kg' = [kg EXCEPT
                !.graph = add_edge(@, normalize_author_name(RaceAuthors[kg.a.i]),
                                   PaperNode(RacePaper), "authored"),
                !.a = [pc |-> "author_node", i |-> kg.a.i + 1]]
    /\ UNCHANGED unchangedByGraph

\* add_paper: `if not has_node(concept_id): add_node(concept_id, ...)`, or
\* the end of the concept loop and `return True`
RaceAddConceptNode ==
    /\ kg.a.pc = "concept_node"
    /\ IF kg.a.i > Len(RaceConcepts)
       THEN kg' = [kg EXCEPT !.a = [pc |-> "returned", i |-> 0]]
       ELSE LET concept == RaceConcepts[kg.a.i]
                concept_id == ConceptNode(concept)
            IN  kg' = [kg EXCEPT
                         !.graph = IF has_node(@, concept_id) THEN @
                                   ELSE add_node(@, NamedNodeRecord(concept_id, "concept",
                                                                    concept)),
                         !.a.pc = "concept_edge"]
    /\ UNCHANGED unchangedByGraph

\* add_paper: add_edge(paper, concept_id, relationship='discusses')
RaceAddConceptEdge ==
    /\ kg.a.pc = "concept_edge"
    /\ kg' = [kg EXCEPT
                !.graph = add_edge(@, PaperNode(RacePaper),
                                   ConceptNode(RaceConcepts[kg.a.i]), "discusses"),
                !.a = [pc |-> "concept_node", i |-> kg.a.i + 1]]
    /\ UNCHANGED unchangedByGraph

\* the state of link_citations when it starts the node loop of reference
\* ref, or returns links_created after the last reference
LinkAtRef(l, ref, links_created, g) ==
    IF ref > Len(RaceRefs)
    THEN [l EXCEPT !.pc = "returned", !.links_created = links_created,
                   !.returned = links_created]
    ELSE [l EXCEPT !.pc = "next", !.ref = ref, !.pos = 1, !.size0 = Len(g.nodes),
                   !.links_created = links_created]

\* link_citations: `if not self.graph.has_node(source_node): return 0`
RaceLinkHasNode ==
    /\ kg.l.pc = "has_node"
    /\ kg' = [kg EXCEPT
                !.l = IF ~has_node(kg.graph, PaperNode(RacePaper))
                      THEN [@ EXCEPT !.pc = "returned", !.returned = 0]
                      ELSE LinkAtRef(@, 1, 0, kg.graph)]
    /\ UNCHANGED unchangedByGraph

\* link_citations: one next() of the node loop and the loop body
RaceLinkNext ==
    /\ kg.l.pc = "next"
    /\ Len(kg.graph.nodes) = kg.l.size0
    /\ IF kg.l.pos > kg.l.size0
       THEN kg' = [kg EXCEPT !.l = LinkAtRef(@, kg.l.ref + 1, kg.l.links_created,
                                             kg.graph)]
       ELSE LET node == kg.graph.nodes[kg.l.pos]
            IN  IF node.id \in PaperNodes
                   /\ TitlesMatch(RaceRefs[kg.l.ref].title, node.title)
                THEN kg' = [kg EXCEPT
                              !.graph = add_edge(@, PaperNode(RacePaper), node.id, "cites"),
                              !.l = LinkAtRef(@, kg.l.ref + 1, kg.l.links_created + 1,
                                              kg.graph)]
                ELSE kg' = [kg EXCEPT !.l.pos = @ + 1]
    /\ UNCHANGED unchangedByGraph

\* link_citations: next() raises RuntimeError (dictionary changed size
\* during iteration); the except clause returns 0
RaceLinkRaises ==
    /\ kg.l.pc = "next"
    /\ Len(kg.graph.nodes) # kg.l.size0
    /\ kg' = [kg EXCEPT !.l.pc = "returned", !.l.returned = 0]
    /\ UNCHANGED unchangedByGraph

\* find_related_papers(paper_id) of another request, between two steps
RaceFindRelated ==
    /\ kg.found = NoGraphCall
    /\ kg' = [kg EXCEPT
                !.found = [op |-> "find_related_papers", paper_id |-> RacePaper,
                           related |-> find_related_papers(kg.graph, RacePaper,
                                                           RelatedMaxResults, None)]]
    /\ UNCHANGED unchangedByGraph

NextGraphRace ==
    \/ RaceAddPaperNode
    \/ RaceAddAuthorNode
    \/ RaceAddAuthorEdge
    \/ RaceAddConceptNode
    \/ RaceAddConceptEdge
    \/ RaceLinkHasNode
    \/ RaceLinkNext
    \/ RaceLinkRaises
    \/ RaceFindRelated

SpecGraphRace == InitGraphRace /\ [][NextGraphRace]_vars

(***************************************************************************)
(* SpecVector: VectorDatabase.index_paper and delete_paper                 *)
(* (vector_db.py:87-211, 331-355) on the Chroma collection.  A section's   *)
(* text is given by the chunks chunk_text returns for it; the md5 prefix   *)
(* of a chunk id is modelled by the chunk's text.                          *)
(***************************************************************************)
MaxIndexOps == 3     \* index_paper and delete_paper calls on one collection

IndexedPapers == {1, 2}
ContentVersions == {1, 2}

\* the compiled paper data of each paper in two versions: abstract is ""
\* when it has 50 characters or fewer, contributions is FALSE for an empty
\* dict, a section has the chunks chunk_text returns and words words
PaperContent ==
    [p \in IndexedPapers |->
        IF p = 1
        THEN <<[abstract |-> "abstract 1", contributions |-> TRUE,
                contrib_text |-> "contributions 1",
                sections |-> <<[name |-> "Introduction", safe |-> "Introduction",
                                words |-> 700, chunks |-> <<"intro a", "intro b">>],
                               [name |-> "References", safe |-> "References",
                                words |-> 300, chunks |-> <<"refs">>],
                               [name |-> "Notes", safe |-> "Notes",
                                words |-> 10, chunks |-> <<>>]>>],
               [abstract |-> "", contributions |-> TRUE,
                contrib_text |-> "contributions 1 revised",
                sections |-> <<[name |-> "Introduction", safe |-> "Introduction",
                                words |-> 700, chunks |-> <<"intro a", "intro c">>],
                               [name |-> "Related Work", safe |-> "Related_Work",
                                words |-> 200, chunks |-> <<"related">>]>>]>>
        ELSE <<[abstract |-> "abstract 2", contributions |-> FALSE,
                contrib_text |-> "",
                sections |-> <<[name |-> "Introduction", safe |-> "Introduction",
                                words |-> 200, chunks |-> <<"intro a">>]>>],
               [abstract |-> "abstract 2 revised", contributions |-> FALSE,
                contrib_text |-> "",
                sections |-> <<>>]>>]

\* the job_id index_paper stores: the datastore's, 0 when the lookup fails
StoredJob(db_job_id) == IF db_job_id # None THEN db_job_id ELSE 0

StoredChunk(p, job_id, section, section_type, chunk_idx, text) ==
    [id |-> [prefix |-> "paper", n |-> p, section |-> section,
             chunk_idx |-> chunk_idx, hash |-> text],
     text |-> text,
     metadata |-> [paper_id |-> p, job_id |-> job_id,
                   section_type |-> section_type, chunk_index |-> chunk_idx]]

\* the abstract and the contributions have ids without index and hash
HeadChunk(p, job_id, section_type, text) ==
    [id |-> [prefix |-> "paper", n |-> p, section |-> section_type,
             chunk_idx |-> None, hash |-> NoneStr],
     text |-> text,
     metadata |-> [paper_id |-> p, job_id |-> job_id,
                   section_type |-> section_type, chunk_index |-> 0]]

\* 'reference' in section_name.lower()
IsReferenceSection(name) == name = "References"

\* the sections loop: the chunks of the sections that are long enough and
\* are not the references
SectionChunks(p, job_id, sections) ==
    LET kept == SelectSeq(sections,
                    LAMBDA sec : sec.words >= 50 /\ ~IsReferenceSection(sec.name))
    IN  Concat([i \in 1..Len(kept) |->
            [c \in 1..Len(kept[i].chunks) |->
                StoredChunk(p, job_id, kept[i].safe, kept[i].name, c - 1,
                            kept[i].chunks[c])]])

\* documents, metadatas and ids as index_paper builds them
BuildChunks(p, paper_data, db_job_id) ==
    LET job_id == StoredJob(db_job_id)
    IN  (IF paper_data.abstract # ""
            THEN <<HeadChunk(p, job_id, "abstract", paper_data.abstract)>> ELSE <<>>)
        \o (IF paper_data.contributions
            THEN <<HeadChunk(p, job_id, "contributions", paper_data.contrib_text)>>
            ELSE <<>>)
        \o SectionChunks(p, job_id, paper_data.sections)

\* collection.add: a chunk whose id the collection holds is not stored again
ChromaAdd(coll, chunks) ==
    coll \cup {c \in SeqToSet(chunks) : \A old \in coll : old.id # c.id}

\* delete_paper: collection.get(where={"paper_id": paper_id}), then delete
delete_paper(coll, p) == {c \in coll : c.metadata.paper_id # p}

\* index_paper without the call of delete_paper
IndexWithoutDelete(coll, p, paper_data, db_job_id) ==
    ChromaAdd(coll, BuildChunks(p, paper_data, db_job_id))

\* index_paper
index_paper(coll, p, paper_data, db_job_id) ==
    ChromaAdd(delete_paper(coll, p), BuildChunks(p, paper_data, db_job_id))

InitVector ==
    /\ collection = {}
    /\ vx = [phase |-> "on", prev |-> {}, log |-> <<>>]
    /\ nrows = 0 /\ bm25 = EmptyIndex
    /\ rpc = [t \in RefreshThreads |-> "idle"]
    /\ rfetched = [t \in RefreshThreads |-> 0]
    /\ ri = [t \in RefreshThreads |-> 0]
    /\ observed = NoObservation
    /\ rr = [phase |-> "off"]
    /\ q = [pc |-> "off"]
    /\ bq = Off /\ ga = Off /\ kg = Off /\ cj = Off

unchangedByVector == <<idxVars, rr, q, bq, ga, kg, cj>>

\* vector_db.index_paper(paper['id'], paper_data) (app.py:543)
IndexPaper ==
    /\ Len(vx.log) < MaxIndexOps
    /\ \E p \in IndexedPapers, v \in ContentVersions :
       \E db_job_id \in {None, PaperJob[p]} :
          /\ collection' = index_paper(collection, p, PaperContent[p][v], db_job_id)
          /\ vx' = [vx EXCEPT !.prev = collection,
                              !.log = Append(@, [op |-> "index_paper", paper_id |-> p,
                                                 version |-> v, db_job_id |-> db_job_id])]
    /\ UNCHANGED unchangedByVector

DeletePaper ==
    /\ Len(vx.log) < MaxIndexOps
    /\ \E p \in IndexedPapers :
          /\ collection' = delete_paper(collection, p)
          /\ vx' = [vx EXCEPT !.prev = collection,
                              !.log = Append(@, [op |-> "delete_paper", paper_id |-> p,
                                                 version |-> 0, db_job_id |-> None])]
    /\ UNCHANGED unchangedByVector

NextVector ==
    \/ IndexPaper
    \/ DeletePaper

SpecVector == InitVector /\ [][NextVector]_vars

(***************************************************************************)
(* SpecAnswer: _generate_answer as a function of the enriched sources and  *)
(* of the outcome of ollama.chat.                                          *)
(***************************************************************************)
MaxSources == 3      \* most sources given to _generate_answer

SourcePapers == {1, 2, 3}
SourceScores == {200, 300, 500, 600}     \* relevance scores, in thousandths

\* an entry of the final result list as _generate_answer reads it
SourceOf(paper_id, relevance_score) ==
    [metadata |-> [paper_id |-> paper_id], relevance_score |-> relevance_score]

AllSources == {SourceOf(p, r) : p \in SourcePapers, r \in SourceScores}

InitAnswer ==
    /\ \E sources \in SeqsUpTo(AllSources, MaxSources), llm_raises \in BOOLEAN :
          ga = [phase |-> "call", sources |-> sources, llm_raises |-> llm_raises,
                out |-> <<>>]
    /\ nrows = 0 /\ bm25 = EmptyIndex
    /\ rpc = [t \in RefreshThreads |-> "idle"]
    /\ rfetched = [t \in RefreshThreads |-> 0]
    /\ ri = [t \in RefreshThreads |-> 0]
    /\ observed = NoObservation
    /\ rr = [phase |-> "off"]
    /\ q = [pc |-> "off"]
    /\ collection = {}
    /\ bq = Off /\ kg = Off /\ vx = Off /\ cj = Off

AnswerCall ==
    /\ ga.phase = "call"
    /\ ga' = [ga EXCEPT !.phase = "returned",
                        !.out = generate_answer(ga.sources, ga.llm_raises)]
    /\ UNCHANGED <<idxVars, rr, q, collection, bq, kg, vx, cj>>

NextAnswer == AnswerCall

SpecAnswer == InitAnswer /\ [][NextAnswer]_vars

(***************************************************************************)
(* SpecTf: the score search computes for one chunk of a corpus, and for    *)
(* the same chunk with one more occurrence of a query term in place of a   *)
(* word the query does not hold.  N, the posting lists, the chunk lengths  *)
(* and the average length are the same in both corpora.                    *)
(***************************************************************************)
MaxTf == 3          \* most occurrences of the query term in the chunk

Repeat(w, n) == [i \in 1..n |-> w]

\* the text of the chunk: tf occurrences of term in MaxTf + 1 words
TfText(term, filler, tf) == Repeat(term, tf) \o Repeat(filler, MaxTf + 1 - tf)

\* the first k datastore rows, the first one holding TfText
TfRows(k, term, filler, tf) ==
    [i \in 1..k |->
        IF i = 1 THEN [AllRows[1] EXCEPT !.content = TfText(term, filler, tf)]
        ELSE AllRows[i]]

InitTf ==
    /\ \E k \in 1..MaxRows, term \in Tokens, filler \in Tokens,
          tf \in 1..(MaxTf - 1), query \in SearchQueries :
          /\ term # filler
          /\ term \in SeqToSet(Tokenize(query))
          /\ filler \notin SeqToSet(Tokenize(query))
          /\ bq = [phase |-> "tf_call", k |-> k, term |-> term, filler |-> filler,
                   tf |-> tf, query |-> query,
                   lo |-> [raised |-> FALSE, results |-> <<>>],
                   hi |-> [raised |-> FALSE, results |-> <<>>]]
    /\ nrows = 0 /\ bm25 = EmptyIndex
    /\ rpc = [t \in RefreshThreads |-> "idle"]
    /\ rfetched = [t \in RefreshThreads |-> 0]
    /\ ri = [t \in RefreshThreads |-> 0]
    /\ observed = NoObservation
    /\ rr = [phase |-> "off"]
    /\ q = [pc |-> "off"]
    /\ collection = {}
    /\ ga = Off /\ kg = Off /\ vx = Off /\ cj = Off

\* search over the corpus with tf occurrences and over the one with tf + 1
TfSearch ==
    /\ bq.phase = "tf_call"
    /\ bq' = [bq EXCEPT
                !.phase = "tf_returned",
                !.lo = search(IndexOf(TfRows(bq.k, bq.term, bq.filler, bq.tf)),
                              bq.query, bq.k, None),
                !.hi = search(IndexOf(TfRows(bq.k, bq.term, bq.filler, bq.tf + 1)),
                              bq.query, bq.k, None)]
    /\ UNCHANGED <<idxVars, rr, q, collection, ga, kg, vx, cj>>

NextTf == TfSearch

SpecTf == InitTf /\ [][NextTf]_vars

(***************************************************************************)
(* SpecJobs: start_processing requests served on threads (app.py:55-115,   *)
(* app.run(threaded=True)) and the process_papers_background threads they  *)
(* start (app.py:867-1003).  No lock guards current_job.                   *)
(***************************************************************************)
MaxRequests == 2    \* start_processing requests

Requests == 1..MaxRequests

InitJobs ==
    /\ cj = [phase |-> "jobs", is_processing |-> FALSE, job_id |-> None,
             jobs_created |-> 0,
             req |-> [r \in Requests |-> [pc |-> "arrives", job_id |-> None,
                                          response |-> ""]],
             running |-> {}, finished |-> {}]
    /\ nrows = 0 /\ bm25 = EmptyIndex
    /\ rpc = [t \in RefreshThreads |-> "idle"]
    /\ rfetched = [t \in RefreshThreads |-> 0]
    /\ ri = [t \in RefreshThreads |-> 0]
    /\ observed = NoObservation
    /\ rr = [phase |-> "off"]
    /\ q = [pc |-> "off"]
    /\ collection = {}
    /\ bq = Off /\ ga = Off /\ kg = Off /\ vx = Off

unchangedByJobs == <<idxVars, rr, q, collection, bq, ga, kg, vx>>

ReqReturns(r, response) ==
    [cj EXCEPT !.req[r].pc = "returned", !.req[r].response = response]

\* `if current_job['is_processing']: return ... 400` (app.py:60-64)
ReqCheck(r) ==
    /\ cj.phase = "jobs"
    /\ cj.req[r].pc = "arrives"
    /\ cj' = IF cj.is_processing
             THEN ReqReturns(r, "Processing already in progress")
             ELSE [cj EXCEPT !.req[r].pc = "validate"]
    /\ UNCHANGED unchangedByJobs

\* the validation and the Ollama check (app.py:67-84)
ReqValidate(r) ==
    /\ cj.phase = "jobs"
    /\ cj.req[r].pc = "validate"
    /\ \E outcome \in {"ok", "Topic is required",
                        "Number of papers must be between 1 and 20",
                        "Ollama service not running"} :
          cj' = IF outcome = "ok" THEN [cj EXCEPT !.req[r].pc = "create_job"]
                ELSE ReqReturns(r, outcome)
    /\ UNCHANGED unchangedByJobs

\* job_id = db.create_job(topic, num_papers) (app.py:87); an exception is
\* answered with a server error (app.py:113-115)
ReqCreateJob(r) ==
    /\ cj.phase = "jobs"
    /\ cj.req[r].pc = "create_job"
    /\ \E raises \in BOOLEAN :
          cj' = IF raises THEN ReqReturns(r, "Server error")
                ELSE [cj EXCEPT !.jobs_created = @ + 1,
                                !.req[r].job_id = cj.jobs_created + 1,
                                !.req[r].pc = "set_current"]
    /\ UNCHANGED unchangedByJobs

\* current_job = {'is_processing': True, 'job_id': job_id, ...} (app.py:90-94)
ReqSetCurrent(r) ==
    /\ cj.phase = "jobs"
    /\ cj.req[r].pc = "set_current"
    /\ cj' = [cj EXCEPT !.is_processing = TRUE,
                        !.job_id = cj.req[r].job_id,
                        !.req[r].pc = "start_thread"]
    /\ UNCHANGED unchangedByJobs

\* thread.start() and the response (app.py:99-109)
ReqStartThread(r) ==
    /\ cj.phase = "jobs"
    /\ cj.req[r].pc = "start_thread"
    /\ cj' = [ReqReturns(r, "Processing started successfully")
                EXCEPT !.running = @ \cup {cj.req[r].job_id}]
    /\ UNCHANGED unchangedByJobs

\* process_papers_background ends: current_job['is_processing'] = False
\* (app.py:885, 1002-1003)
BackgroundEnds(job_id) ==
    /\ cj.phase = "jobs"
    /\ job_id \in cj.running
    /\ cj' = [cj EXCEPT !.is_processing = FALSE,
                        !.running = @ \ {job_id},
                        !.finished = @ \cup {job_id}]
    /\ UNCHANGED unchangedByJobs

NextJobs ==
    \/ \E r \in Requests : ReqCheck(r)
    \/ \E r \in Requests : ReqValidate(r)
    \/ \E r \in Requests : ReqCreateJob(r)
    \/ \E r \in Requests : ReqSetCurrent(r)
    \/ \E r \in Requests : ReqStartThread(r)
    \/ \E job_id \in 1..MaxRequests : BackgroundEnds(job_id)

SpecJobs == InitJobs /\ [][NextJobs]_vars

(***************************************************************************)
(* Claims about the keyword index                                          *)
(***************************************************************************)
NoDuplicates(s) == \A i, j \in 1..Len(s) : s[i] = s[j] => i = j

RowOf(d) == AllRows[CHOOSE i \in 1..Len(AllRows) : AllRows[i].id = d]

\* the four structures describe one chunk set
IndexConsistent(idx) ==
    LET chunks == DOMAIN idx.document_metadata
        N == Len(idx.documents)
    IN  /\ N = Cardinality(chunks)
        /\ DOMAIN idx.doc_lengths = chunks
        /\ \A t \in Tokens : NoDuplicates(idx.inverted_index[t])
        /\ \A d \in chunks : \A t \in Tokens :
              FreqOf(idx, d, t) = CountIn(Tokenize(RowOf(d).content), t)
        /\ IF N = 0 THEN idx.avg_doc_length.num = 0
           ELSE RatEq(idx.avg_doc_length, Rat(SumLengths(idx), N))

\* C1: a search that runs while refresh() is rebuilding the index sees a
\* complete index, the one of before the refresh or the one of after it,
\* that is the index built from the rows of some moment of the datastore.
C1_SearchSeesCompleteIndex ==
    observed.seen => \E k \in 0..nrows : observed.index = BuildIndex(k)

\* C2: when every started refresh() has completed, the document count, the
\* posting lists, the term frequencies and the average length agree with
\* the indexed chunks.
C2_ConsistentAfterRefresh ==
    (\A t \in RefreshThreads : rpc[t] \in {"idle", "returned"}) => IndexConsistent(bm25)

(***************************************************************************)
(* Claims about reranking                                                  *)
(***************************************************************************)
ValidMentions(results, llm) ==
    ParseRanks(llm.parts, Len(Take(results, RerankSlice)))

RECURSIVE FirstMentions(_, _)
FirstMentions(ranks, seen) ==
    IF ranks = <<>> THEN <<>>
    ELSE IF Head(ranks) \in seen THEN FirstMentions(Tail(ranks), seen)
         ELSE <<Head(ranks)>> \o FirstMentions(Tail(ranks), seen \cup {Head(ranks)})

\* mentioned top-slice candidates in mentioned order, the other top-slice
\* candidates in their original order, then the candidates beyond the slice
ExpectedRerank(results, llm) ==
    LET candidates == Take(results, RerankSlice)
        mentioned == FirstMentions(ValidMentions(results, llm), {})
        IsLeft(c) == \A i \in 1..Len(mentioned) : candidates[mentioned[i] + 1] # c
    IN  [i \in 1..Len(mentioned) |-> candidates[mentioned[i] + 1]]
            \o SelectSeq(candidates, IsLeft)
            \o Drop(results, Len(candidates))

RerankApplies ==
    /\ rr.phase = "returned"
    /\ Len(rr.results) > RerankMinResults
    /\ ~rr.llm.raises
    /\ ValidMentions(rr.results, rr.llm) # <<>>

\* C5: with more than 5 candidates and a response holding a valid index, the
\* returned list is the fused list reordered: mentioned candidates first, the
\* rest of the slice in original order, the tail unchanged; nothing is
\* dropped or repeated.
C5_RerankIsPermutation ==
    RerankApplies => rr.out = ExpectedRerank(rr.results, rr.llm)

RerankDegrades ==
    /\ rr.phase = "returned"
    /\ rr.llm.raises \/ ValidMentions(rr.results, rr.llm) = <<>>

\* C6: when the rerank call raises or no valid index parses, the fused list
\* comes back unchanged.
C6_RerankFallbackKeepsOrder ==
    RerankDegrades => rr.out = rr.results

\* a response whose parts are all unparsable or out of range, on a list
\* longer than the reranked slice
C6_Witness_Unparsable ==
    /\ RerankDegrades
    /\ ~rr.llm.raises
    /\ Len(rr.llm.parts) = MaxParts
    /\ Len(rr.results) > RerankSlice

(***************************************************************************)
(* Claims about query                                                      *)
(***************************************************************************)
Returned == q.pc = "returned"
Confidences == {"high", "medium", "low", "error"}

\* C3: every call of query ends with a response that holds an answer, a
\* sources list and a confidence of high, medium, low or error, whichever of
\* the keyword index, the semantic adapter, the knowledge graph and the text
\* generation fail; a response made by the top-level handler has confidence
\* error, no sources and the error message.
C3_StructuredResponse ==
    /\ Returned =>
          /\ {"answer", "sources", "confidence"} \subseteq DOMAIN q.response
          /\ q.response.confidence \in Confidences
    /\ q.handled =>
          /\ Returned
          /\ q.response.confidence = "error"
          /\ q.response.sources = <<>>
          /\ "error" \in DOMAIN q.response

\* the handler has answered a question that is not a string
C3_Witness_Handled == Returned /\ q.handled

Refreshed == q.calls.vector_refresh > 0 \/ q.calls.bm25_refresh > 0
FirstRetrievalDone == q.calls.semantic > 0
RetryDone == q.calls.semantic = 2

\* C4: the indexes are refreshed only after both first retrievals came back
\* empty, each index once, followed by one retry of both retrievals; when
\* both are empty again the query returns the no-information response and
\* calls neither rerank nor answer generation, nor retrieves or refreshes
\* again.
C4_RefreshOnceRetryOnce ==
    /\ q.calls.vector_refresh <= 1 /\ q.calls.bm25_refresh <= 1
    /\ q.calls.bm25 <= 2 /\ q.calls.semantic <= 2
    /\ Refreshed => FirstRetrievalDone /\ BothEmpty(q.first_bm25, q.first_semantic)
    /\ (Returned /\ FirstRetrievalDone) =>
          IF BothEmpty(q.first_bm25, q.first_semantic)
          THEN /\ q.calls.vector_refresh = 1 /\ q.calls.bm25_refresh = 1
               /\ q.calls.bm25 = 2 /\ q.calls.semantic = 2
          ELSE /\ ~Refreshed
               /\ q.calls.bm25 = 1 /\ q.calls.semantic = 1
    /\ (RetryDone /\ BothEmpty(q.bm25_results, q.semantic_results)) =>
          /\ Returned
          /\ q.response = NoInformation
          /\ q.calls.fuse = 0 /\ q.calls.rerank = 0 /\ q.calls.rerank_llm = 0
          /\ q.calls.generate = 0

\* a query that refreshed, retried, found nothing and gave up
C4_Witness_NoInformation ==
    /\ Returned /\ Refreshed /\ RetryDone
    /\ q.response = NoInformation

Fused == q.calls.fuse > 0
IdsOf(results) == [i \in 1..Len(results) |-> results[i].id]

\* C7: every document of the keyword list or of the semantic list appears
\* exactly once in the fused list, and the fused list holds no other
\* document.
C7_FusionComplete ==
    Fused =>
        /\ SeqToSet(IdsOf(q.fused_results)) =
              SeqToSet(IdsOf(q.bm25_results)) \cup SeqToSet(IdsOf(q.semantic_results))
        /\ NoDuplicates(IdsOf(q.fused_results))
        /\ NoDuplicates(KeysOf(q.fused_results))

\* a fusion of two non-empty lists, one of them with two results of a paper
C7_Witness_BothLists ==
    /\ Fused
    /\ Len(q.bm25_results) >= 2 /\ Len(q.semantic_results) >= 2
    /\ q.bm25_results[1].metadata.paper_id = q.bm25_results[2].metadata.paper_id

\* the section label of a result, as _format_sources reads it
SectionLabel(result) ==
    Get(result.metadata, "section_type", Get(result.metadata, "section", "Unknown"))

SameChunk(a, b) ==
    /\ a.metadata.paper_id = b.metadata.paper_id
    /\ SectionLabel(a) = SectionLabel(b)

\* C8: a chunk returned by both retrievals yields one fused candidate, with
\* both ranks set and the sum of both rank contributions as its score.
C8_SameChunkCollapses ==
    Fused =>
        \A i \in 1..Len(q.bm25_results), j \in 1..Len(q.semantic_results) :
            SameChunk(q.bm25_results[i], q.semantic_results[j]) =>
                LET hits == {f \in 1..Len(q.fused_results) :
                                SameChunk(q.fused_results[f], q.bm25_results[i])}
                IN  /\ Cardinality(hits) = 1
                    /\ \A f \in hits :
                          /\ q.fused_results[f].fusion_info.bm25_rank = i
                          /\ q.fused_results[f].fusion_info.semantic_rank = j
                          /\ RatEq(q.fused_results[f].rrf_score,
                                   RatAdd(Rat(1, RRF_K + i), Rat(1, RRF_K + j)))

Deduped == q.calls.dedup > 0

RECURSIVE FirstPerSection(_)
FirstPerSection(results) ==
    IF results = <<>> THEN <<>>
    ELSE LET front == FirstPerSection(SubSeq(results, 1, Len(results) - 1))
             last == results[Len(results)]
         IN  IF \E i \in 1..Len(front) : SameChunk(front[i], last)
             THEN front ELSE Append(front, last)

\* C9: deduplication keeps the first result of every (paper_id, section
\* label) pair in input order, so that results of one paper with different
\* section labels all survive, and the final list is its first
\* RAG_TOP_K_RESULTS entries.
C9_DedupByPaperAndSection ==
    Deduped =>
        /\ q.unique_results = FirstPerSection(q.reranked)
        /\ q.final_results = Take(q.unique_results, RAG_TOP_K_RESULTS)

\* papers.job_id of a paper of the datastore
JobOfPaper(paper_id) ==
    LET i == CHOOSE k \in 1..Len(AllRows) : AllRows[k].paper_id = paper_id
    IN  AllRows[i].job_id

\* C10: every source of the response to a query with job_id = j belongs to a
\* paper of job j.
C10_SourcesOfTheJob ==
    (Returned /\ q.job_id # None) =>
        \A i \in 1..Len(q.response.sources) :
            JobOfPaper(q.response.sources[i].paper_id) = q.job_id

(***************************************************************************)
(* Claims about BM25Retriever.search                                       *)
(***************************************************************************)
SearchReturned == bq.phase = "returned"

\* the chunks of the index that hold a query token, by the posting lists
MatchingChunks(idx, query) ==
    {d \in DOMAIN idx.doc_lengths :
        \E t \in SeqToSet(Tokenize(query)) : d \in SeqToSet(idx.inverted_index[t])}

\* the job_id the index holds for a chunk; 0 stands for none
JobInIndex(idx, d) ==
    IF d \in DOMAIN idx.document_metadata THEN idx.document_metadata[d].job_id ELSE 0

ReturnedChunks(out) == {out.results[i].doc_id : i \in 1..Len(out.results)}

\* C11: with a job_id filter search returns a chunk only if the chunk's
\* job_id is the filter or is 0 or absent; chunks without a job_id are
\* unscoped and do not make the search fail; with no filter every matching
\* chunk is eligible (top_k permitting).
C11_JobFilter ==
    SearchReturned =>
        LET idx == bq.idx
            matching == MatchingChunks(idx, bq.query)
            eligible == IF bq.job_id = None THEN matching
                        ELSE {d \in matching : JobInIndex(idx, d) \in {0, bq.job_id}}
            returned == ReturnedChunks(bq.out)
        IN  /\ ~bq.out.raised
            /\ returned \subseteq eligible
            /\ Len(bq.out.results) = Cardinality(returned)
            \* an emptied corpus returns nothing, whatever the posting lists hold
            /\ idx.documents # <<>> =>
                  Cardinality(returned) >= Min(bq.top_k, Cardinality(eligible))

\* a filtered search over chunks of the job, of another job, of job 0 and
\* one over chunks without metadata, each returning a chunk
C11_Witness_Filtered ==
    /\ SearchReturned
    /\ bq.job_id # None
    /\ bq.out.results # <<>>
    /\ \E d \in MatchingChunks(bq.idx, bq.query) :
          JobInIndex(bq.idx, d) \notin {0, bq.job_id}
    /\ \E d \in ReturnedChunks(bq.out) : JobInIndex(bq.idx, d) = 0

C11_Witness_AbsentJob ==
    /\ SearchReturned
    /\ bq.job_id # None
    /\ \E d \in ReturnedChunks(bq.out) : d \notin DOMAIN bq.idx.document_metadata

EligibleChunks(idx, query, job_id) ==
    {d \in MatchingChunks(idx, query) :
        job_id = None \/ JobInIndex(idx, d) \in {0, job_id}}

Found == kg.phase = "on" /\ kg.found.op = "find_related_papers"
LastOp == kg.log[Len(kg.log)]
JobOfNode(g, p) == NodeData(g, PaperNode(p)).job_id
RelatedIds(related) == {related[i].paper_id : i \in 1..Len(related)}

\* the job a call is scoped to: the argument, or the source node's job_id
ScopeOf(found) ==
    IF found.job_id # None THEN found.job_id ELSE JobOfNode(kg.graph, found.paper_id)

\* C12: every entry find_related_papers(p, job_id=j) returns is a paper whose
\* job_id is j, whatever the relationship; with job_id omitted j is the
\* job_id of p's node, so no paper of another job is returned.
C12_RelatedWithinJob ==
    Found =>
        \A i \in 1..Len(kg.found.related) :
            JobOfNode(kg.graph, kg.found.related[i].paper_id) = ScopeOf(kg.found)

\* a call that returns a paper while a paper of another job shares an
\* author with the source
C12_Witness_OtherJobExcluded ==
    /\ Found
    /\ kg.found.related # <<>>
    /\ \E x \in GraphPapers :
          /\ has_node(kg.graph, PaperNode(x))
          /\ x # kg.found.paper_id
          /\ JobOfNode(kg.graph, x) # ScopeOf(kg.found)
          /\ \E a \in AuthorNodes :
                /\ PaperNode(x) \in SeqToSet(successors(kg.graph, a))
                /\ PaperNode(kg.found.paper_id) \in SeqToSet(successors(kg.graph, a))

EdgeCount(g, e) == Cardinality({i \in 1..Len(g.edges) : g.edges[i] = e})

SameGraph(g, h) ==
    /\ g.nodes = h.nodes
    /\ \A e \in SeqToSet(g.edges) \cup SeqToSet(h.edges) : EdgeCount(g, e) = EdgeCount(h, e)

\* C13: add_paper twice with the same paper id and data leaves the node
\* set, the node attributes and the multiset of edges as one call does.
C13_AddPaperIdempotent ==
    (/\ kg.phase = "on"
     /\ Len(kg.log) >= 2
     /\ LastOp.op = "add_paper"
     /\ kg.log[Len(kg.log) - 1] = LastOp) => SameGraph(kg.graph, kg.prev)

\* the paper nodes whose title is similar enough to the reference's title:
\* 5 * |intersection| > 4 * |union| of the lowercased word sets
SimilarNodes(g, ref) ==
    {i \in 1..Len(g.nodes) :
        /\ g.nodes[i].type = "paper"
        /\ LET a == TitleWords(ref.title)
               b == TitleWords(g.nodes[i].title)
           IN  a # {} /\ b # {} /\ 5 * Cardinality(a \cap b) > 4 * Cardinality(a \cup b)}

FirstOf(S) == CHOOSE i \in S : \A j \in S : i <= j

\* the cites edges a call must add: one per reference that has a similar
\* node, to the first such node
ExpectedCites(g, p, references) ==
    LET matched == SelectSeq(references, LAMBDA ref : SimilarNodes(g, ref) # {})
    IN  [i \in 1..Len(matched) |->
            [u |-> PaperNode(p), v |-> g.nodes[FirstOf(SimilarNodes(g, matched[i]))].id,
             relationship |-> "cites"]]

Linked ==
    /\ kg.phase = "on"
    /\ kg.log # <<>>
    /\ LastOp.op = "link_citations"
    /\ has_node(kg.prev, PaperNode(LastOp.paper_id))

\* C19: link_citations adds for each reference at most one cites edge, to
\* the first paper node whose title has Jaccard similarity above 0.8 with
\* the reference's title, case ignored; the count it returns is the number
\* of edges added and the number of references that have such a node.
C19_LinkFirstMatch ==
    Linked =>
        LET expected == ExpectedCites(kg.prev, LastOp.paper_id, LastOp.references)
        IN  /\ kg.graph.nodes = kg.prev.nodes
            /\ kg.graph.edges = kg.prev.edges \o expected
            /\ LastOp.links_created = Len(expected)

\* a call that adds an edge for a reference two nodes are similar to (one
\* differs in case only) and none for a reference whose best similarity is 0.8
C19_Witness_TwoCandidates ==
    /\ Linked
    /\ LastOp.links_created = 1
    /\ \E i \in 1..Len(LastOp.references) :
          Cardinality(SimilarNodes(kg.prev, LastOp.references[i])) = 2
    /\ \E i \in 1..Len(LastOp.references) :
          /\ SimilarNodes(kg.prev, LastOp.references[i]) = {}
          /\ \E n \in 1..Len(kg.prev.nodes) :
                RatEq(title_similarity(LastOp.references[i].title, kg.prev.nodes[n].title),
                      Rat(4, 5))

RelationshipRank ==
    [cites_this |-> 1, cited_by_this |-> 2, same_author |-> 3, shared_concept |-> 4]

SharedAuthors(g, x, s) ==
    {a \in AuthorNodes : PaperNode(x) \in SeqToSet(successors(g, a))
                            /\ PaperNode(s) \in SeqToSet(successors(g, a))}

SharedConcepts(g, x, s) ==
    {c \in ConceptNodes : PaperNode(x) \in SeqToSet(predecessors(g, c))
                             /\ PaperNode(s) \in SeqToSet(predecessors(g, c))}

\* the ways paper x is related to the source s, as ranks
WaysRelated(g, x, s) ==
    (IF HasCites(g, PaperNode(x), PaperNode(s)) THEN {1} ELSE {})
    \cup (IF HasCites(g, PaperNode(s), PaperNode(x)) THEN {2} ELSE {})
    \cup (IF x # s /\ SharedAuthors(g, x, s) # {} THEN {3} ELSE {})
    \cup (IF x # s /\ SharedConcepts(g, x, s) # {} THEN {4} ELSE {})

\* C20: find_related_papers returns at most max_results entries, no two for
\* one paper, each tagged with its relationship (and the concept's name for
\* shared_concept); entries come in the order citing, cited, same author,
\* shared concept, and a paper related in several ways has its first one.
C20_RelatedDedupOrdered ==
    Found =>
        LET rel == kg.found.related
            s == kg.found.paper_id
            g == kg.graph
        IN  /\ Len(rel) <= kg.found.max_results
            /\ \A i, j \in 1..Len(rel) : rel[i].paper_id = rel[j].paper_id => i = j
            /\ \A i, j \in 1..Len(rel) :
                  i < j => RelationshipRank[rel[i].relationship]
                              <= RelationshipRank[rel[j].relationship]
            /\ \A i \in 1..Len(rel) :
                  /\ rel[i].relationship \in DOMAIN RelationshipRank
                  /\ RelationshipRank[rel[i].relationship]
                        = FirstOf(WaysRelated(g, rel[i].paper_id, s))
                  /\ IF rel[i].relationship = "shared_concept"
                     THEN \E c \in SharedConcepts(g, rel[i].paper_id, s) :
                              rel[i].concept = NodeData(g, c).name
                     ELSE rel[i].concept = NoneStr

\* a call cut at max_results whose first entry is a paper related in
\* several ways
C20_Witness_SeveralWays ==
    /\ Found
    /\ Len(kg.found.related) = kg.found.max_results
    /\ Len(kg.found.related) >= 2
    /\ Cardinality(WaysRelated(kg.graph, kg.found.related[1].paper_id,
                               kg.found.paper_id)) >= 2

(***************************************************************************)
(* Claims about the vector index                                           *)
(***************************************************************************)
LastIndexOp == vx.log[Len(vx.log)]
Indexed == vx.phase = "on" /\ vx.log # <<>> /\ LastIndexOp.op = "index_paper"
ChunksOfPaper(coll, p) == {c \in coll : c.metadata.paper_id = p}

\* the texts the latest content puts in the index: abstract, contributions
\* and the chunks of the sections other than short ones and the references
LatestTexts(paper_data) ==
    (IF paper_data.abstract # "" THEN {paper_data.abstract} ELSE {})
    \cup (IF paper_data.contributions THEN {paper_data.contrib_text} ELSE {})
    \cup UNION {SeqToSet(paper_data.sections[i].chunks) :
                  i \in {j \in 1..Len(paper_data.sections) :
                            /\ paper_data.sections[j].words >= 50
                            /\ paper_data.sections[j].name # "References"}}

C15_GenerationFailureIsLow ==
    Returned =>
        /\ q.generate_raised =>
              /\ q.response.confidence = "low"
              /\ "error" \notin DOMAIN q.response
              /\ q.response.answer # "Error: generation failed"
        /\ q.response.confidence = "error" => q.handled

\* the first semantic retrieval raised and the first keyword retrieval
\* returned results
SemanticDown == q.pc # "off" /\ q.semantic_raised /\ q.first_bm25 # <<>>

\* C16: when the semantic adapter raises and the keyword index returns
\* results, the semantic list is empty, nothing is refreshed or retried, the
\* fused list is the keyword results in keyword order, and the response is
\* not an error response.
C16_KeywordOnlyOnSemanticFailure ==
    SemanticDown =>
        /\ q.semantic_results = <<>>
        /\ q.bm25_results = q.first_bm25
        /\ ~Refreshed
        /\ q.calls.bm25 = 1 /\ q.calls.semantic = 1
        /\ Fused => IdsOf(q.fused_results) = IdsOf(q.bm25_results)
        /\ Returned =>
              /\ ~q.handled
              /\ "error" \notin DOMAIN q.response
              /\ ~q.generate_raised => q.response.confidence \in {"high", "medium", "low"}

\* a query answered from the keyword results alone, two of them or more
C16_Witness_KeywordOnly ==
    /\ SemanticDown
    /\ Returned
    /\ Len(q.fused_results) >= 2
    /\ q.response.sources # <<>>

AnswerReturned == ga.phase = "returned"
PapersOf(sources) == {sources[i].metadata.paper_id : i \in 1..Len(sources)}
ScoreSum(sources) == SumSeq([i \in 1..Len(sources) |-> sources[i].relevance_score])

\* C17: when generation succeeds the confidence is high exactly when the
\* sources have 3 distinct papers or more and mean relevance 0.5 or more,
\* otherwise medium exactly when they have a paper and mean relevance 0.3 or
\* more, otherwise low; 3 papers with mean 0.6 give high and 1 paper with
\* mean 0.2 gives low.
C17_ConfidenceLabel ==
    (AnswerReturned /\ ~ga.llm_raises) =>
        LET n == Len(ga.sources)
            papers == Cardinality(PapersOf(ga.sources))
            \* mean >= 0.5 and mean >= 0.3 of scores in thousandths
            half == n > 0 /\ 2 * ScoreSum(ga.sources) >= 1000 * n
            third == n > 0 /\ 10 * ScoreSum(ga.sources) >= 3000 * n
            high == papers >= 3 /\ half
            medium == ~high /\ papers >= 1 /\ third
            c == ga.out.confidence
        IN  /\ c = "high" <=> high
            /\ c = "medium" <=> medium
            /\ c = "low" <=> (~high /\ ~medium)
            /\ (papers = 3 /\ ScoreSum(ga.sources) = 600 * n) => c = "high"
            /\ (papers = 1 /\ n > 0 /\ ScoreSum(ga.sources) = 200 * n) => c = "low"

\* three papers whose mean relevance is exactly 0.5
C17_Witness_HighAtThreshold ==
    /\ AnswerReturned
    /\ ~ga.llm_raises
    /\ Cardinality(PapersOf(ga.sources)) = 3
    /\ ScoreSum(ga.sources) = 500 * Len(ga.sources)
    /\ ga.out.confidence = "high"

\* C21: a search on an empty corpus, or with a query that yields no tokens
\* (the empty string, or only words of two letters or fewer), returns the
\* empty list and raises nothing.
C21_EmptySearchIsEmpty ==
    SearchReturned /\ (bq.idx.documents = <<>> \/ Tokenize(bq.query) = <<>>) =>
        /\ ~bq.out.raised
        /\ bq.out.results = <<>>

\* an emptied corpus whose posting lists still hold a query token
C21_Witness_EmptyCorpus ==
    /\ SearchReturned
    /\ bq.idx.documents = <<>>
    /\ MatchingChunks(bq.idx, bq.query) # {}
    /\ bq.out.results = <<>>

\* a query of one two-letter word over a corpus of several chunks
C21_Witness_NoTokens ==
    /\ SearchReturned
    /\ bq.idx.documents # <<>>
    /\ bq.query # <<>> /\ Tokenize(bq.query) = <<>>
    /\ bq.out.results = <<>>

\* the largest raw score among the returned results
MaxReturnedScore(res) == MaxOf([i \in 1..Len(res) |-> res[i].bm25_score])

\* C22: every returned result carries a normalized score in [0,1] equal to
\* its raw score divided by the largest raw score among the returned
\* results, so the first returned result has the normalized score 1
\* (scores in thousandths).
C22_NormalizedByReturnedMax ==
    SearchReturned /\ bq.out.results # <<>> =>
        LET res == bq.out.results
        IN  /\ \A i \in 1..Len(res) :
                  /\ res[i].relevance_score \in 0..1000
                  /\ MaxReturnedScore(res) > 0 =>
                        res[i].relevance_score =
                            (res[i].bm25_score * 1000) \div MaxReturnedScore(res)
            /\ res[1].relevance_score = 1000

\* a scoped search over an intact index whose best chunk is of another job:
\* the first returned result is normalized by a score that was not returned
C22_FilteredBestChunk ==
    /\ SearchReturned
    /\ bq.job_id # None
    /\ bq.idx \in {IndexOf(RowsWithJobs(k, job_of)) :
                      k \in 1..MaxRows, job_of \in [{1, 2} -> StoredJobIds]}
    /\ bq.out.results # <<>>
    /\ bq.out.results[1].relevance_score < 1000

TfReturned == bq.phase = "tf_returned"

\* bm25_score of chunk d in a search's results
ScoreOfChunk(out, d) ==
    LET i == CHOOSE j \in 1..Len(out.results) : out.results[j].doc_id = d
    IN  out.results[i].bm25_score

\* C23: with N, the posting lists, the chunk lengths and the average length
\* fixed, one more occurrence of a query term in a chunk never lowers the
\* score search computes for the chunk.
C23_ScoreMonotoneInTf ==
    TfReturned =>
        /\ ~bq.lo.raised /\ ~bq.hi.raised
        /\ 1 \in ReturnedChunks(bq.lo) /\ 1 \in ReturnedChunks(bq.hi)
        /\ ScoreOfChunk(bq.hi, 1) >= ScoreOfChunk(bq.lo, 1)
        /\ LET lo == IndexOf(TfRows(bq.k, bq.term, bq.filler, bq.tf))
               hi == IndexOf(TfRows(bq.k, bq.term, bq.filler, bq.tf + 1))
           IN  /\ Len(lo.documents) = Len(hi.documents)
               /\ lo.inverted_index = hi.inverted_index
               /\ lo.doc_lengths = hi.doc_lengths
               /\ lo.avg_doc_length = hi.avg_doc_length
               /\ hi.word_freqs[1][bq.term] = lo.word_freqs[1][bq.term] + 1

\* a query of several terms over a corpus of several chunks, where the
\* added occurrence raises the chunk's score
C23_Witness_MoreOccurrences ==
    /\ TfReturned
    /\ bq.k > 1
    /\ Len(Tokenize(bq.query)) > 1
    /\ bq.tf + 1 = MaxTf
    /\ ScoreOfChunk(bq.hi, 1) > ScoreOfChunk(bq.lo, 1)

(***************************************************************************)
(* Claims about queries that run side by side                              *)
(***************************************************************************)
\* what _retrieve_bm25 gives a query for each question when it reads idx
KeywordResults(idx) ==
    [i \in 1..Len(Questions) |->
        retrieve_bm25(idx, preprocess_query(Questions[i].words), RetrievalTopK,
                      None, FALSE)]

\* C24: a query returns what the index snapshot and the external responses
\* determine, and leaves nothing behind that changes the result of a later
\* or concurrent query: the keyword results a query obtains while other
\* queries run are the ones of an index built from the datastore.
C24_QueriesDoNotInterfere ==
    observed.seen =>
        \E k \in 0..nrows : KeywordResults(observed.index) = KeywordResults(BuildIndex(k))

\* the refresh() calls of two queries have returned and a later query gets
\* keyword results that no index built from the datastore gives
C24_LaterQueryDiffers ==
    /\ \A t \in RefreshThreads : rpc[t] = "returned"
    /\ observed.seen /\ observed.index = bm25
    /\ \A k \in 0..nrows : KeywordResults(bm25) # KeywordResults(BuildIndex(k))

(***************************************************************************)
(* Claims about the fusion                                                 *)
(***************************************************************************)
\* the sum of 1/(60 + r) over the ranks r of a set
RECURSIVE ReciprocalSum(_)
ReciprocalSum(ranks) ==
    IF ranks = {} THEN Rat(0, 1)
    ELSE LET r == CHOOSE x \in ranks : TRUE
         IN  RatAdd(Rat(1, 60 + r), ReciprocalSum(ranks \ {r}))

RanksOf(keys, key) == {r \in 1..Len(keys) : keys[r] = key}

\* where a key is first seen: keyword results are read before semantic ones
FirstSeen(bkeys, skeys, key) ==
    LET all == bkeys \o skeys
    IN  CHOOSE i \in 1..Len(all) : all[i] = key /\ \A j \in 1..(i - 1) : all[j] # key

\* C25: the fusion score of a key is the sum, over both lists, of 1/(60 + r)
\* for every rank r (from 1) at which the key occurs; the fused list is in
\* order of non-increasing fusion score, and keys of equal score keep the
\* order in which they were first seen, keyword results first.
C25_FusionScoreAndOrder ==
    Fused =>
        LET fused == q.fused_results
            bkeys == KeysOf(q.bm25_results)
            skeys == KeysOf(q.semantic_results)
            key(i) == get_doc_key(fused[i])
        IN  /\ \A i \in 1..Len(fused) :
                  RatEq(fused[i].rrf_score,
                        RatAdd(ReciprocalSum(RanksOf(bkeys, key(i))),
                               ReciprocalSum(RanksOf(skeys, key(i)))))
            /\ \A i, j \in 1..Len(fused) :
                  i < j =>
                    /\ fused[i].rrf_score.num * fused[j].rrf_score.den
                          >= fused[j].rrf_score.num * fused[i].rrf_score.den
                    /\ RatEq(fused[i].rrf_score, fused[j].rrf_score) =>
                          FirstSeen(bkeys, skeys, key(i)) < FirstSeen(bkeys, skeys, key(j))

\* a keyword result and a semantic result of the same rank, hence of the
\* same score, behind a result of a better rank
C25_Witness_TieKeepsKeywordFirst ==
    /\ Fused
    /\ Len(q.bm25_results) >= 2 /\ Len(q.semantic_results) >= 2
    /\ \E i \in 2..(Len(q.fused_results) - 1) :
          /\ RatEq(q.fused_results[i].rrf_score, q.fused_results[i + 1].rrf_score)
          /\ "doc_id" \in DOMAIN q.fused_results[i]
          /\ "doc_id" \notin DOMAIN q.fused_results[i + 1]

(***************************************************************************)
(* Claims about the edges of a paper node                                  *)
(***************************************************************************)
HasEdge(g, u, v, relationship) ==
    \E i \in 1..Len(g.edges) :
        g.edges[i].u = u /\ g.edges[i].v = v /\ g.edges[i].relationship = relationship

AddCalls == {i \in 1..Len(kg.log) : kg.log[i].op = "add_paper"}

\* C26: in every graph reached through add_paper and link_citations calls,
\* those that return False included, each paper node has an authored edge
\* from the author node of every one of its listed authors and a discusses
\* edge to the concept node of every concept extracted for it.
C26_PaperEdgesComplete ==
    kg.phase = "on" =>
        /\ \A i \in AddCalls :
              LET p == kg.log[i].paper_id
              IN  /\ has_node(kg.graph, PaperNode(p))
                  /\ \A a \in SeqToSet(PaperData[p].authors) :
                        HasEdge(kg.graph, normalize_author_name(a), PaperNode(p),
                                "authored")
                  /\ \A c \in SeqToSet(kg.log[i].order) :
                        HasEdge(kg.graph, PaperNode(p), ConceptNode(c), "discusses")
        /\ \A n \in 1..Len(kg.graph.nodes) :
              kg.graph.nodes[n].type = "paper" =>
                  \E i \in AddCalls : kg.log[i].paper_id = kg.graph.nodes[n].paper_id

\* a paper added with its concepts, a paper whose add_paper returned False
\* and a link_citations call that linked the two
C26_Witness_FailedAddAndLinks ==
    /\ kg.phase = "on"
    /\ \E i, j, k \in 1..Len(kg.log) :
          /\ kg.log[i].op = "add_paper" /\ kg.log[i].returned
          /\ Len(kg.log[i].order) = 2
          /\ kg.log[j].op = "add_paper" /\ ~kg.log[j].returned
          /\ kg.log[j].paper_id # kg.log[i].paper_id
          /\ kg.log[k].op = "link_citations" /\ kg.log[k].links_created > 0
          /\ k > i /\ k > j

(***************************************************************************)
(* Claims about concurrent calls on the graph                              *)
(***************************************************************************)
RaceAdded(g) == add_paper(g, RacePaper, PaperData[RacePaper], kg.db_job_id, kg.order)
RaceLinked(g) == link_citations(g, RacePaper, RaceRefs).graph

\* the graphs a serial order of the two writing calls leaves
SerialGraphs == {RaceLinked(RaceAdded(RaceGraph0)), RaceAdded(RaceLinked(RaceGraph0))}

\* the graphs a find_related_papers call sees in a serial order of the calls
SerialViews ==
    SerialGraphs \cup {RaceGraph0, RaceAdded(RaceGraph0), RaceLinked(RaceGraph0)}

WritersReturned == kg.a.pc = "returned" /\ kg.l.pc = "returned"

C27_GraphOfNoSerialOrder ==
    /\ kg.phase = "race"
    /\ WritersReturned
    /\ \A g \in SerialGraphs : ~SameGraph(kg.graph, g)

(***************************************************************************)
(* Claims about the source list                                            *)
(***************************************************************************)
Formatted == Returned /\ q.calls.generate > 0

\* the numbering _format_sources gives: one entry per final result in
\* order, source_number 1..n, paper_number by first appearance
SourcesNumbered ==
    LET src == q.response.sources
        res == q.enriched
    IN  /\ Len(src) = Len(res)
        /\ \A i \in 1..Len(src) :
              /\ src[i].source_number = i
              /\ src[i].paper_id = res[i].metadata.paper_id
              /\ (\A j \in 1..(i - 1) : src[j].paper_id # src[i].paper_id) =>
                    src[i].paper_number =
                        Cardinality({src[j].paper_id : j \in 1..(i - 1)}) + 1
              /\ \A j \in 1..(i - 1) :
                    src[j].paper_id = src[i].paper_id =>
                        src[j].paper_number = src[i].paper_number

\* C28: _format_sources emits one entry per final result in order, with
\* source_number 1..n, paper_number by first appearance of the paper, and
\* the method 'bm25' for a result of the keyword retrieval and 'semantic'
\* for a result of the semantic retrieval.
C28_SourcesNumberedWithMethod ==
    Formatted =>
        /\ SourcesNumbered
        /\ \A i \in 1..Len(q.response.sources) :
              q.response.sources[i].retrieval_method =
                  IF "doc_id" \in DOMAIN q.enriched[i] THEN "bm25" ELSE "semantic"

\* a source list with a keyword result in it, and a paper that appears
\* again behind another paper
C28_KeywordSourceFormatted ==
    /\ Formatted
    /\ \E i \in 1..Len(q.enriched) : "doc_id" \in DOMAIN q.enriched[i]

C28_PaperSeenAgain ==
    /\ Formatted
    /\ \E i, j, k \in 1..Len(q.response.sources) :
          /\ i < j /\ j < k
          /\ q.response.sources[i].paper_id = q.response.sources[k].paper_id
          /\ q.response.sources[i].paper_id # q.response.sources[j].paper_id

(***************************************************************************)
(* Claims about a paper related to itself                                  *)
(***************************************************************************)
\* C29: in every graph reached through add_paper and link_citations,
\* find_related_papers(p, ...) returns no entry whose paper_id is p, under
\* any of the four kinds of relationship.
C29_NeverRelatedToItself ==
    Found => kg.found.paper_id \notin RelatedIds(kg.found.related)

\* the entries of p itself come from a cites edge from p to p, never from
\* an author or a concept
C29_SelfOnlyThroughCites ==
    Found =>
        \A i \in 1..Len(kg.found.related) :
            kg.found.related[i].paper_id = kg.found.paper_id =>
                /\ kg.found.related[i].relationship \in {"cites_this", "cited_by_this"}
                /\ HasCites(kg.graph, PaperNode(kg.found.paper_id),
                            PaperNode(kg.found.paper_id))

(***************************************************************************)
(* Claims about the background job                                         *)
(***************************************************************************)
\* the requests that have set current_job and not yet started their thread
Starting == {r \in Requests : cj.req[r].pc = "start_thread"}

\* C30: at most one background job is active at any time: no two
\* process_papers_background threads run at once, and is_processing is
\* True exactly while a background job runs (or is being started).
C30_OneJobAtATime ==
    cj.phase = "jobs" =>
        /\ Cardinality(cj.running) <= 1
        /\ cj.running # {} => cj.is_processing
        /\ cj.is_processing => cj.running # {} \/ Starting # {}

\* a job runs while is_processing is False: the other job has ended
C30_RunningUnflagged ==
    /\ cj.phase = "jobs"
    /\ cj.running # {}
    /\ ~cj.is_processing
====
